---- MODULE Spec2Model ----
(***************************************************************************)
(* BookNest catalog import pipeline (backend/app/routers/import_export.py) *)
(* over the SQLAlchemy session of backend/app/db.py.                       *)
(*                                                                         *)
(* A text is a sequence of tokens (a token stands for one character or    *)
(* for one indivisible word); strip, lower, split, int() and float() are  *)
(* computed on that sequence.  A Python value is a tagged record.          *)
(***************************************************************************)
EXTENDS Integers, Sequences, FiniteSets, TLC

\* Records read from uploaded files in one behaviour, all imports together,
\* plus the requests made to the books, authors and export endpoints.
MaxRecords == 3

-----------------------------------------------------------------------------
(* Python values *)

PyNone == [t |-> "None"]
PyAbsent == [t |-> "absent"]
PyDict == [t |-> "dict", v |-> <<>>]
PyObj(fields) == [t |-> "dict", v |-> fields]
PyStr(s) == [t |-> "str", v |-> s]
PyInt(n) == [t |-> "int", v |-> n]
PyList(l) == [t |-> "list", v |-> l]
PyDate(d) == [t |-> "date", v |-> d]

IsStr(x) == x.t = "str"
IsInt(x) == x.t = "int"

\* bool(x) of a Python value
Truthy(x) ==
  CASE x.t = "None" -> FALSE
    [] x.t = "absent" -> FALSE
    [] x.t = "str" -> x.v # <<>>
    [] x.t = "int" -> x.v # 0
    [] x.t = "list" -> x.v # <<>>
    [] x.t = "dict" -> DOMAIN x.v # {}
    [] OTHER -> TRUE

\* dict.get(key, default): the default only when the key is absent
Get(row, key, default) == IF row[key].t = "absent" THEN default ELSE row[key]

\* a or b
PyOr(a, b) == IF Truthy(a) THEN a ELSE b

-----------------------------------------------------------------------------
(* str methods *)

IsSpace(c) == c = " "

RECURSIVE LStrip(_)
LStrip(s) == IF s # <<>> /\ IsSpace(Head(s)) THEN LStrip(Tail(s)) ELSE s

RECURSIVE RStrip(_)
RStrip(s) ==
  IF s # <<>> /\ IsSpace(s[Len(s)]) THEN RStrip(SubSeq(s, 1, Len(s) - 1)) ELSE s

Strip(s) == RStrip(LStrip(s))

LowerTok(c) ==
  CASE c = "A" -> "a"
    [] c = "X" -> "x"
    [] c = "G" -> "g"
    [] c = "READ" -> "read"
    [] c = "Reading" -> "reading"
    [] c = "PAPERBACK" -> "paperback"
    [] c = "HARDCOVER" -> "hardcover"
    [] c = "EBOOK" -> "ebook"
    [] c = "AUDIOBOOK" -> "audiobook"
    [] c = "Owned" -> "owned"
    [] c = "Read" -> "read"
    [] c = "WANT_TO_READ" -> "want_to_read"
    [] c = "On_Hold" -> "on_hold"
    [] c = "DROPPED" -> "dropped"
    [] c = "Bookshelf" -> "bookshelf"
    [] c = "E-BOOK" -> "e-book"
    [] c = "Audiobook" -> "audiobook"
    [] OTHER -> c

Lower(s) == [i \in 1..Len(s) |-> LowerTok(s[i])]

\* s.split(sep): the pieces between the separators, empty pieces included
RECURSIVE SplitAcc(_, _, _)
SplitAcc(s, sep, cur) ==
  IF s = <<>> THEN <<cur>>
  ELSE IF Head(s) = sep THEN <<cur>> \o SplitAcc(Tail(s), sep, <<>>)
  ELSE SplitAcc(Tail(s), sep, Append(cur, Head(s)))

Split(s, sep) == SplitAcc(s, sep, <<>>)

\* sub in s
Contains(s, sub) ==
  \E i \in 0..(Len(s) - Len(sub)) : SubSeq(s, i + 1, i + Len(sub)) = sub

RECURSIVE SelectSeqOf(_, _)
SelectSeqOf(names, idx) ==
  IF idx > Len(names) THEN <<>>
  ELSE IF Strip(names[idx]) # <<>>
       THEN <<Strip(names[idx])>> \o SelectSeqOf(names, idx + 1)
       ELSE SelectSeqOf(names, idx + 1)

\* [a.strip() for a in cell.split(',') if a.strip()]
SplitNames(cell) == SelectSeqOf(Split(cell, ","), 1)

-----------------------------------------------------------------------------
(* int() and float() of a text *)

DigitVal(c) ==
  CASE c = "0" -> 0 [] c = "1" -> 1 [] c = "2" -> 2 [] c = "3" -> 3
    [] c = "4" -> 4 [] c = "5" -> 5 [] c = "6" -> 6 [] c = "7" -> 7
    [] c = "8" -> 8 [] c = "9" -> 9 [] OTHER -> -1

IsDigits(s) == s # <<>> /\ \A i \in 1..Len(s) : DigitVal(s[i]) >= 0

RECURSIVE DigitsVal(_)
DigitsVal(s) ==
  IF s = <<>> THEN 0 ELSE 10 * DigitsVal(SubSeq(s, 1, Len(s) - 1)) + DigitVal(s[Len(s)])

RECURSIVE Pow10(_)
Pow10(n) == IF n = 0 THEN 1 ELSE 10 * Pow10(n - 1)

\* the digits d with sign sgn as an int, or ValueError (ok = FALSE)
Digits(d, sgn) ==
  IF IsDigits(d) THEN [ok |-> TRUE, v |-> sgn * DigitsVal(d)] ELSE [ok |-> FALSE, v |-> 0]

Signed(s) == IF s # <<>> /\ Head(s) = "-" THEN Digits(Tail(s), -1) ELSE Digits(s, 1)

\* int(text): surrounding whitespace and one sign are accepted; anything
\* else raises ValueError
ParseInt(text) == Signed(Strip(text))

\* the decimal parts[1].parts[2] as the fraction num/den
Decimal(parts, sgn) ==
  IF Len(parts) = 1 /\ IsDigits(parts[1])
  THEN [ok |-> TRUE, kind |-> "num", num |-> sgn * DigitsVal(parts[1]), den |-> 1]
  ELSE IF Len(parts) = 2 /\ IsDigits(parts[1] \o parts[2])
  THEN [ok |-> TRUE, kind |-> "num",
        num |-> sgn * DigitsVal(parts[1] \o parts[2]), den |-> Pow10(Len(parts[2]))]
  ELSE [ok |-> FALSE, kind |-> "num", num |-> 0, den |-> 1]

FloatOf(d, sgn) ==
  IF d = <<"inf">> THEN [ok |-> TRUE, kind |-> "inf", num |-> sgn, den |-> 1]
  ELSE IF d = <<"nan">> THEN [ok |-> TRUE, kind |-> "nan", num |-> 0, den |-> 1]
  ELSE Decimal(Split(d, "."), sgn)

SignedFloat(s) == IF s # <<>> /\ Head(s) = "-" THEN FloatOf(Tail(s), -1) ELSE FloatOf(s, 1)

\* float(text) as the fraction num/den; "inf" and "nan" are floats too
ParseFloat(text) == SignedFloat(Strip(text))

\* int(num/den): truncation toward zero
Trunc(num, den) == IF num >= 0 THEN num \div den ELSE 0 - ((0 - num) \div den)

-----------------------------------------------------------------------------
(* Vocabulary of the catalog *)

Lit(w) == PyStr(<<w>>)

BookStatus == {Lit("planned"), Lit("reading"), Lit("finished"), Lit("on_hold"),
               Lit("dropped"), Lit("wishlist")}

BookFormat == {Lit("paper"), Lit("ebook"), Lit("audiobook")}

\* (x or '') of a text-or-None value
TextOrEmpty(x) == IF Truthy(x) THEN x.v ELSE <<>>

\* the comparison of the status without lower()
map_reading_status_exact(status, state) ==
  CASE TextOrEmpty(status) = <<"read">> -> Lit("finished")
    [] TextOrEmpty(status) = <<"reading">> -> Lit("reading")
    [] TextOrEmpty(status) = <<"want_to_read">> -> Lit("planned")
    [] TextOrEmpty(status) = <<"on_hold">> -> Lit("on_hold")
    [] TextOrEmpty(status) = <<"dropped">> -> Lit("dropped")
    [] OTHER -> Lit("planned")

\* the test for ebook before the test for audiobook
map_book_format_ebook_first(types) ==
  IF Contains(Lower(TextOrEmpty(types)), <<"ebook">>)
     \/ Contains(Lower(TextOrEmpty(types)), <<"e-book">>)
  THEN Lit("ebook")
  ELSE IF Contains(Lower(TextOrEmpty(types)), <<"audiobook">>) THEN Lit("audiobook")
  ELSE Lit("paper")

map_reading_status(status, state) ==
  LET status_lower == Lower(TextOrEmpty(status))
      state_lower == Lower(TextOrEmpty(state))
  IN CASE status_lower = <<"read">> -> Lit("finished")
       [] status_lower = <<"reading">> -> Lit("reading")
       [] status_lower = <<"want_to_read">> -> Lit("planned")
       [] status_lower = <<"on_hold">> -> Lit("on_hold")
       [] status_lower = <<"dropped">> -> Lit("dropped")
       [] OTHER -> IF state_lower \in {<<"bookshelf">>, <<"owned">>}
                   THEN Lit("planned") ELSE Lit("planned")

map_book_format(types) ==
  LET types_lower == Lower(TextOrEmpty(types))
  IN IF Contains(types_lower, <<"audiobook">>) THEN Lit("audiobook")
     ELSE IF Contains(types_lower, <<"ebook">>) \/ Contains(types_lower, <<"e-book">>)
     THEN Lit("ebook")
     ELSE IF Contains(types_lower, <<"hardcover">>) THEN Lit("paper")
     ELSE IF Contains(types_lower, <<"paperback">>) THEN Lit("paper")
     ELSE Lit("paper")

\* lines 133-134 of import_from_booktracker: text.split('\n')[0] if '\n' in text else text
FirstLine(text) == IF Contains(text, <<"\n">>) THEN Split(text, "\n")[1] ELSE text

\* the delimiter of the csv.DictReader of the handler: import_from_booktracker
\* looks for a semicolon in the first line (line 134), import_from_csv passes
\* none, which is the comma of the excel dialect (line 324)
delimiter(handler, text) ==
  IF handler = "tracker" /\ Contains(FirstLine(text), <<";">>) THEN ";" ELSE ","

\* the lines of the text, each split into its cells
Cells(text, sep) == [i \in 1..Len(Split(text, "\n")) |-> Split(Split(text, "\n")[i], sep)]

-----------------------------------------------------------------------------
(* The relational store: tables books, authors, genres, book_authors,     *)
(* book_genres.  A catalog value is the content of the five tables.        *)

EmptyCatalog ==
  [books |-> {}, authors |-> {}, genres |-> {}, book_authors |-> {}, book_genres |-> {}]

\* INTEGER PRIMARY KEY of SQLite: one more than the largest id in the table
NextId(rows) ==
  IF rows = {} THEN 1
  ELSE 1 + (CHOOSE m \in {r.id : r \in rows} : \A r \in rows : r.id <= m)

\* a value the DB-API can bind to a scalar column
Bindable(x) == x.t \in {"None", "str", "int"}

\* Column(..., default=d): a None attribute is left out of the INSERT
ColumnDefault(x, d) == IF x.t = "None" THEN d ELSE x

NoRepeat(ids) == \A i, j \in 1..Len(ids) : ids[i] = ids[j] => i = j

Range(f) == {f[i] : i \in DOMAIN f}

\* an attribute the constructor was not given is None
Attr(b, name) == IF name \in DOMAIN b THEN b[name] ELSE PyNone

\* INSERT of one Book object: the row, with the column defaults of models.py.
\* ok is FALSE when the DB-API refuses a parameter (InterfaceError).
InsertBook(cat, b) ==
  LET row == [id |-> NextId(cat.books),
              title |-> b.title,
              status |-> ColumnDefault(b.status, Lit("planned")),
              format |-> ColumnDefault(b.format, Lit("paper")),
              total_pages |-> b.total_pages,
              current_page |-> ColumnDefault(b.current_page, PyInt(0)),
              rating |-> b.rating,
              started_at |-> Attr(b, "started_at"),
              finished_at |-> Attr(b, "finished_at")]
  IN [ok |-> \A c \in {"title", "status", "format", "total_pages", "current_page", "rating"} :
               Bindable(row[c]),
      id |-> row.id,
      cat |-> [cat EXCEPT !.books = @ \cup {row}]]

\* INSERT of the association rows of one book: (book_id, other_id) is the
\* primary key, so a repeated entity in the collection is an IntegrityError.
InsertLinks(cat, table, bid, ids) ==
  [ok |-> NoRepeat(ids) /\ \A i \in 1..Len(ids) : <<bid, ids[i]>> \notin cat[table],
   cat |-> [cat EXCEPT ![table] = @ \cup {<<bid, ids[i]>> : i \in 1..Len(ids)}]]

\* the association rows of the flushed book ins
FlushLinks(b, ins, la) ==
  [ok |-> ins.ok /\ la.ok /\ InsertLinks(la.cat, "book_genres", ins.id, b.genres).ok,
   cat |-> InsertLinks(la.cat, "book_genres", ins.id, b.genres).cat]

FlushRow(b, ins) == FlushLinks(b, ins, InsertLinks(ins.cat, "book_authors", ins.id, b.authors))

\* flush of one pending Book object with its authors and genres collections
FlushBook(cat, b) == FlushRow(b, InsertBook(cat, b))

RECURSIVE FlushAll(_, _)
FlushNext(cat, pending, f) ==
  IF f.ok THEN FlushAll(f.cat, Tail(pending)) ELSE [ok |-> FALSE, cat |-> cat]

\* the unit of work: every pending object, in the order of db.add()
FlushAll(cat, pending) ==
  IF pending = <<>> THEN [ok |-> TRUE, cat |-> cat]
  ELSE FlushNext(cat, pending, FlushBook(cat, Head(pending)))

(* A session S is [tx, pending, active]: tx is the catalog as the open    *)
(* transaction sees it (committed rows and flushed rows), pending the Book *)
(* objects added and not flushed (autoflush=False), active is FALSE once a *)
(* flush has failed and Session.rollback() has not been called.            *)

NewSession(committed) == [tx |-> committed, pending |-> <<>>, active |-> TRUE]

Flushed(S, committed, f) ==
  IF f.ok THEN [S |-> [S EXCEPT !.tx = f.cat, !.pending = <<>>], exc |-> FALSE]
  ELSE [S |-> [tx |-> committed, pending |-> <<>>, active |-> FALSE], exc |-> TRUE]

\* Session.flush(): a failure rolls the transaction back, expunges the
\* pending objects and leaves the session inactive
SessionFlush(S, committed) ==
  IF ~S.active THEN [S |-> S, exc |-> TRUE] ELSE Flushed(S, committed, FlushAll(S.tx, S.pending))

Committed(committed, fl) ==
  IF fl.exc THEN [ok |-> FALSE, db |-> committed] ELSE [ok |-> TRUE, db |-> fl.S.tx]

\* Session.commit(): flush, then COMMIT; an inactive session raises
SessionCommit(S, committed) == Committed(committed, SessionFlush(S, committed))

EntityId(cat, table, name) == (CHOOSE e \in cat[table] : e.name = name).id

Created(nid, fl) == [S |-> fl.S, exc |-> fl.exc, id |-> nid]

\* db.add(Entity(name=name)); db.flush()
Create(table, S, committed, name, nid) ==
  Created(nid, SessionFlush([S EXCEPT !.tx[table] = @ \cup {[id |-> nid, name |-> name]}],
                            committed))

\* add and flush without the query
GetOrCreateUnseen(table, S, committed, name) ==
  IF ~S.active THEN [S |-> S, exc |-> TRUE, id |-> 0]
  ELSE [S |-> [S EXCEPT !.tx[table] = @ \cup {[id |-> NextId(S.tx[table]), name |-> name]}],
        exc |-> FALSE, id |-> NextId(S.tx[table])]

\* query by exact name; when absent: add, flush
GetOrCreate(table, S, committed, name) ==
  IF ~S.active THEN [S |-> S, exc |-> TRUE, id |-> 0]
  ELSE IF \E e \in S.tx[table] : e.name = name
  THEN [S |-> S, exc |-> FALSE, id |-> EntityId(S.tx, table, name)]
  ELSE Create(table, S, committed, name, NextId(S.tx[table]))

get_or_create_author(S, committed, name) == GetOrCreate("authors", S, committed, name)

get_or_create_genre(S, committed, name) == GetOrCreate("genres", S, committed, name)

-----------------------------------------------------------------------------
(* import_from_booktracker: one record of the tracker CSV *)

\* if 1 <= rating <= 10: book.rating = rating
KeepRating(rating) == IF 1 <= rating /\ rating <= 10 THEN PyInt(rating) ELSE PyNone

\* lines 204-213: doubled when <= 5, int(); int() of nan is a ValueError
\* (ignored), int() of inf an OverflowError (not caught here)
Rescale(f) ==
  IF ~f.ok \/ f.kind = "nan" THEN [exc |-> FALSE, rating |-> PyNone]
  ELSE IF f.kind = "inf" THEN [exc |-> TRUE, rating |-> PyNone]
  ELSE IF f.num <= 5 * f.den
  THEN [exc |-> FALSE, rating |-> KeepRating(Trunc(2 * f.num, f.den))]
  ELSE [exc |-> FALSE, rating |-> KeepRating(Trunc(f.num, f.den))]

\* lines 201-213: userRating
TrackerRating(rating_str) ==
  IF rating_str = <<>> THEN [exc |-> FALSE, rating |-> PyNone]
  ELSE Rescale(ParseFloat(rating_str))

IntValue(parsed) == IF parsed.ok THEN PyInt(parsed.v) ELSE PyNone

\* try: int(text) except ValueError: pass, for a non-empty text
IntOrUnset(text) == IF text = <<>> THEN PyNone ELSE IntValue(ParseInt(text))

\* lines 176-237: the Book object
TrackerBook(title, reading_status, book_format, total_pages, rt) ==
  [exc |-> rt.exc,
   book |-> [title |-> PyStr(title), status |-> reading_status, format |-> book_format,
             total_pages |-> total_pages,
             current_page |-> IF reading_status = Lit("finished") /\ Truthy(total_pages)
                              THEN total_pages ELSE PyNone,
             rating |-> rt.rating]]

\* lines 153-237: the Book object and the name lists of one row; exc when a
\* str method is called on the None of a short row, or int(inf) overflows
TrackerMaterialise(row, title) ==
  IF \/ ~IsStr(Get(row, "authors", PyStr(<<>>)))
     \/ ~IsStr(PyOr(Get(row, "categories", PyStr(<<>>)), Get(row, "tags", PyStr(<<>>))))
     \/ ~IsStr(Get(row, "subtitle", PyStr(<<>>)))
     \/ ~IsStr(Get(row, "pages", PyStr(<<>>)))
     \/ ~IsStr(Get(row, "userRating", PyStr(<<>>)))
  THEN [exc |-> TRUE]
  ELSE TrackerBook(title,
                   map_reading_status(Get(row, "readingStatus", PyStr(<<>>)),
                                      Get(row, "state", PyStr(<<>>))),
                   map_book_format(Get(row, "types", PyStr(<<>>))),
                   IntOrUnset(Strip(Get(row, "pages", PyStr(<<>>)).v)),
                   TrackerRating(Strip(Get(row, "userRating", PyStr(<<>>)).v)))
       @@ [authors |-> SplitNames(Get(row, "authors", PyStr(<<>>)).v),
           genres |-> SplitNames(PyOr(Get(row, "categories", PyStr(<<>>)),
                                      Get(row, "tags", PyStr(<<>>))).v)]

RECURSIVE TrackerResolve(_, _, _, _, _, _)
\* lines 249-251: the entity r of the name is appended unless it is there
TrackerAppend(table, committed, names, seen, ids, r) ==
  IF r.exc THEN [S |-> r.S, exc |-> TRUE, ids |-> ids]
  ELSE TrackerResolve(table, r.S, committed, Tail(names), seen,
                      IF r.id \in Range(ids) THEN ids ELSE Append(ids, r.id))

\* lines 246-248: the name is taken unless empty or seen
TrackerSeen(table, S, committed, names, seen, ids, low) ==
  IF low # <<>> /\ low \notin seen
  THEN TrackerAppend(table, committed, names, seen \cup {low}, ids,
                     GetOrCreate(table, S, committed, Head(names)))
  ELSE TrackerResolve(table, S, committed, Tail(names), seen, ids)

\* lines 243-261: the seen-set loop; ids is the book's collection so far
TrackerResolve(table, S, committed, names, seen, ids) ==
  IF names = <<>> THEN [S |-> S, exc |-> FALSE, ids |-> ids]
  ELSE TrackerSeen(table, S, committed, names, seen, ids, Strip(Lower(Head(names))))

TrackerCommitted(committed, fault, la, lg) ==
  IF fault = "commit" \/ ~la.ok \/ ~lg.ok
  THEN [outcome |-> "failed", msg |-> "exception", at |-> "commit", db |-> committed]
  ELSE [outcome |-> "success", msg |-> "", at |-> "done", db |-> lg.cat]

TrackerLinks(committed, fault, ins, rg, la) ==
  TrackerCommitted(committed, fault, la,
                   InsertLinks(la.cat, "book_genres", ins.id, rg.ids))

\* lines 263-272: commit (the association rows are inserted here), count
TrackerCommit(committed, fault, ins, ra, rg) ==
  IF fault = "flush" \/ ~ins.ok \/ ra.exc \/ rg.exc
  THEN [outcome |-> "failed", msg |-> "exception", at |-> "flush", db |-> committed]
  ELSE TrackerLinks(committed, fault, ins, rg,
                    InsertLinks(rg.S.tx, "book_authors", ins.id, ra.ids))

\* lines 253-261
TrackerGenres(committed, fault, m, ins, ra) ==
  TrackerCommit(committed, fault, ins, ra,
                TrackerResolve("genres", ra.S, committed, m.genres, {}, <<>>))

\* lines 243-251
TrackerAuthors(committed, fault, m, ins) ==
  TrackerGenres(committed, fault, m, ins,
                TrackerResolve("authors", [NewSession(committed) EXCEPT !.tx = ins.cat],
                               committed, m.authors, {}, <<>>))

\* lines 239-241: db.add(book); db.flush()
TrackerPersist(committed, fault, m) ==
  IF m.exc
  THEN [outcome |-> "failed", msg |-> "exception", at |-> "materialise", db |-> committed]
  ELSE TrackerAuthors(committed, fault, m, InsertBook(committed, m.book))

\* the loop body without the "if not title" test of lines 141-144
TrackerRecordAnyTitle(committed, row, fault) ==
  IF ~IsStr(Get(row, "title", PyStr(<<>>)))
  THEN [outcome |-> "failed", msg |-> "exception", at |-> "title", db |-> committed]
  ELSE IF \E b \in committed.books : b.title = PyStr(Strip(Get(row, "title", PyStr(<<>>)).v))
  THEN [outcome |-> "skipped", msg |-> "exists", at |-> "duplicate", db |-> committed]
  ELSE TrackerPersist(committed, fault,
                      TrackerMaterialise(row, Strip(Get(row, "title", PyStr(<<>>)).v)))

\* the pass when the duplicate check looks for the title as the cell has it
TrackerRecordUntrimmedLookup(committed, row, fault) ==
  IF ~IsStr(Get(row, "title", PyStr(<<>>)))
  THEN [outcome |-> "failed", msg |-> "exception", at |-> "title", db |-> committed]
  ELSE IF Strip(Get(row, "title", PyStr(<<>>)).v) = <<>>
  THEN [outcome |-> "failed", msg |-> "empty_title", at |-> "title", db |-> committed]
  ELSE IF \E b \in committed.books : b.title = Get(row, "title", PyStr(<<>>))
  THEN [outcome |-> "skipped", msg |-> "exists", at |-> "duplicate", db |-> committed]
  ELSE TrackerPersist(committed, fault,
                      TrackerMaterialise(row, Strip(Get(row, "title", PyStr(<<>>)).v)))

\* lines 139-272: one pass of the loop body.  fault is where the store
\* raises for a reason outside the record ("none", "flush", "commit").
TrackerRecord(committed, row, fault) ==
  IF ~IsStr(Get(row, "title", PyStr(<<>>)))
  THEN [outcome |-> "failed", msg |-> "exception", at |-> "title", db |-> committed]
  ELSE IF Strip(Get(row, "title", PyStr(<<>>)).v) = <<>>
  THEN [outcome |-> "failed", msg |-> "empty_title", at |-> "title", db |-> committed]
  ELSE IF \E b \in committed.books : b.title = PyStr(Strip(Get(row, "title", PyStr(<<>>)).v))
  THEN [outcome |-> "skipped", msg |-> "exists", at |-> "duplicate", db |-> committed]
  ELSE TrackerPersist(committed, fault,
                      TrackerMaterialise(row, Strip(Get(row, "title", PyStr(<<>>)).v)))

-----------------------------------------------------------------------------
(* import_from_csv: one record of the generic CSV *)

\* row.get(key, default).strip() or default, for a text cell
StripOr(cell, default) == PyOr(PyStr(Strip(cell.v)), default)

\* if row.get(key): try int(row[key]) except ValueError: pass
CsvInt(cell) == IF Truthy(cell) THEN IntOrUnset(cell.v) ELSE PyNone

InRange(r) == IF IsInt(r) /\ 1 <= r.v /\ r.v <= 10 THEN r ELSE PyNone

\* lines 367-373
CsvRating(cell) == InRange(CsvInt(cell))

RECURSIVE CsvResolve(_, _, _, _, _)
CsvAppend(table, committed, names, ids, r) ==
  IF r.exc THEN [S |-> r.S, exc |-> TRUE, ids |-> ids]
  ELSE CsvResolve(table, r.S, committed, Tail(names), Append(ids, r.id))

\* lines 382-388: get-or-create and append, for every name
CsvResolve(table, S, committed, names, ids) ==
  IF names = <<>> THEN [S |-> S, exc |-> FALSE, ids |-> ids]
  ELSE CsvAppend(table, committed, names, ids, GetOrCreate(table, S, committed, Head(names)))

\* lines 390-391: db.add(book); result.success += 1
AddBook(S, book, ra, rg, exc_at) ==
  IF ra.exc THEN [outcome |-> "failed", msg |-> "exception", at |-> exc_at[1], S |-> ra.S]
  ELSE IF rg.exc THEN [outcome |-> "failed", msg |-> "exception", at |-> exc_at[2], S |-> rg.S]
  ELSE [outcome |-> "success", msg |-> "", at |-> "done",
        S |-> [rg.S EXCEPT !.pending = Append(@, book @@ [authors |-> ra.ids, genres |-> rg.ids])]]

\* lines 386-388
CsvGenres(committed, book, genres, ra) ==
  AddBook(ra.S, book, ra, CsvResolve("genres", ra.S, committed, genres, <<>>),
          <<"authors", "genres">>)

\* lines 343-379: the Book object of a row whose cells are all texts
CsvBook(row, title) ==
  [title |-> PyStr(title),
   status |-> StripOr(Get(row, "status", Lit("planned")), Lit("planned")),
   format |-> StripOr(Get(row, "format", Lit("paper")), Lit("paper")),
   total_pages |-> CsvInt(Get(row, "total_pages", PyNone)),
   current_page |-> CsvInt(Get(row, "current_page", PyNone)),
   rating |-> CsvRating(Get(row, "rating", PyNone))]

\* lines 327-395: one pass of the loop body, on the session S
CsvRecord(S, committed, row) ==
  IF ~IsStr(Get(row, "title", PyStr(<<>>)))
  THEN [outcome |-> "failed", msg |-> "exception", at |-> "title", S |-> S]
  ELSE IF Strip(Get(row, "title", PyStr(<<>>)).v) = <<>>
  THEN [outcome |-> "failed", msg |-> "empty_title", at |-> "title", S |-> S]
  ELSE IF \/ ~IsStr(PyOr(Get(row, "authors", PyStr(<<>>)), Get(row, "author", PyStr(<<>>))))
          \/ ~IsStr(PyOr(Get(row, "genres", PyStr(<<>>)), Get(row, "genre", PyStr(<<>>))))
          \/ ~IsStr(Get(row, "subtitle", PyStr(<<>>)))
          \/ ~IsStr(Get(row, "format", Lit("paper")))
          \/ ~IsStr(Get(row, "status", Lit("planned")))
  THEN [outcome |-> "failed", msg |-> "exception", at |-> "materialise", S |-> S]
  ELSE CsvGenres(committed, CsvBook(row, Strip(Get(row, "title", PyStr(<<>>)).v)),
                 SplitNames(PyOr(Get(row, "genres", PyStr(<<>>)),
                                 Get(row, "genre", PyStr(<<>>))).v),
                 CsvResolve("authors", S, committed,
                            SplitNames(PyOr(Get(row, "authors", PyStr(<<>>)),
                                            Get(row, "author", PyStr(<<>>))).v), <<>>))

-----------------------------------------------------------------------------
(* import_from_json: one record of the JSON document *)

\* book_data.get(key, default) of a JSON object
JGet(rec, key, default) ==
  IF key \in DOMAIN rec.v /\ rec.v[key].t # "absent" THEN rec.v[key] ELSE default

\* the names the for loop visits: a str is wrapped in a list; exc for a
\* value that cannot be iterated (None, int)
JsonNames(x) ==
  CASE x.t = "str" -> [exc |-> FALSE, names |-> <<x>>]
    [] x.t = "list" -> [exc |-> FALSE, names |-> x.v]
    [] x.t = "dict" -> [exc |-> FALSE, names |-> <<>>]
    [] OTHER -> [exc |-> TRUE, names |-> <<>>]

RECURSIVE JsonResolve(_, _, _, _, _)
JsonAppend(table, committed, names, ids, r) ==
  IF r.exc THEN [S |-> r.S, exc |-> TRUE, ids |-> ids]
  ELSE JsonResolve(table, r.S, committed, Tail(names), Append(ids, r.id))

\* lines 453-456 and 462-465: if name: get-or-create(name.strip()), append
JsonResolve(table, S, committed, names, ids) ==
  IF names = <<>> THEN [S |-> S, exc |-> FALSE, ids |-> ids]
  ELSE IF ~Truthy(Head(names)) THEN JsonResolve(table, S, committed, Tail(names), ids)
  ELSE IF ~IsStr(Head(names)) THEN [S |-> S, exc |-> TRUE, ids |-> ids]
  ELSE JsonAppend(table, committed, names, ids,
                  GetOrCreate(table, S, committed, Strip(Head(names).v)))

\* lines 458-468
JsonGenres(committed, book, gn, ra) ==
  IF ~ra.exc /\ gn.exc
  THEN [outcome |-> "failed", msg |-> "exception", at |-> "genres", S |-> ra.S]
  ELSE AddBook(ra.S, book, ra, JsonResolve("genres", ra.S, committed, gn.names, <<>>),
               <<"authors", "genres">>)

\* lines 431-447: the Book object; the values of the document are passed on
JsonBook(rec, title) ==
  [title |-> PyStr(title),
   status |-> JGet(rec, "status", Lit("planned")),
   format |-> JGet(rec, "format", Lit("paper")),
   total_pages |-> JGet(rec, "total_pages", PyNone),
   current_page |-> JGet(rec, "current_page", PyInt(0)),
   rating |-> JGet(rec, "rating", PyNone)]

\* lines 449-456
JsonAuthors(S, committed, rec, title, an) ==
  IF an.exc THEN [outcome |-> "failed", msg |-> "exception", at |-> "authors", S |-> S]
  ELSE JsonGenres(committed, JsonBook(rec, title),
                  JsonNames(JGet(rec, "genres", PyList(<<>>))),
                  JsonResolve("authors", S, committed, an.names, <<>>))

\* lines 424-472: one pass of the loop body, on the session S
JsonRecord(S, committed, rec) ==
  IF rec.t # "dict" THEN [outcome |-> "failed", msg |-> "exception", at |-> "title", S |-> S]
  ELSE IF ~IsStr(JGet(rec, "title", PyStr(<<>>)))
  THEN [outcome |-> "failed", msg |-> "exception", at |-> "title", S |-> S]
  ELSE IF Strip(JGet(rec, "title", PyStr(<<>>)).v) = <<>>
  THEN [outcome |-> "failed", msg |-> "empty_title", at |-> "title", S |-> S]
  ELSE JsonAuthors(S, committed, rec, Strip(JGet(rec, "title", PyStr(<<>>)).v),
                   JsonNames(JGet(rec, "authors", PyList(<<>>))))

-----------------------------------------------------------------------------
(* routers/books.py and routers/authors.py: the handlers as functions of   *)
(* the committed catalog.  Each returns [code, db]; an exception that no   *)
(* handler catches is code 500, and the session is closed without commit.  *)

Today == PyDate("today")

\* db.query(Book).filter(Book.id == book_id).first()
HasBook(cat, book_id) == \E b \in cat.books : b.id = book_id

BookById(cat, book_id) == CHOOSE b \in cat.books : b.id = book_id

\* the catalog after the UPDATE of one row of books
Replace(cat, old, new) == [cat EXCEPT !.books = (@ \ {old}) \cup {new}]

NotFound(cat) == [code |-> 404, db |-> cat]

StripEach(names) == [i \in 1..Len(names) |-> Strip(names[i])]

\* lines 71-89: Book(...) of a validated BookCreate
ApiBook(data) ==
  [title |-> PyStr(data.title), status |-> data.status, format |-> data.format,
   total_pages |-> data.total_pages, current_page |-> data.current_page,
   rating |-> data.rating, started_at |-> data.started_at,
   finished_at |-> data.finished_at]

\* line 102: db.commit()
CreateCommitted(cat, c) ==
  IF c.ok THEN [code |-> 201, db |-> c.db] ELSE [code |-> 500, db |-> cat]

\* lines 101-102
CreateAdded(cat, r) ==
  IF r.outcome # "success" THEN [code |-> 500, db |-> cat]
  ELSE CreateCommitted(cat, SessionCommit(r.S, cat))

\* POST /books
create_book(cat, data) ==
  CreateAdded(cat, CsvGenres(cat, ApiBook(data), StripEach(data.genres),
                             CsvResolve("authors", NewSession(cat), cat,
                                        StripEach(data.authors), <<>>)))

\* POST /authors
create_author(cat, name) ==
  IF \E a \in cat.authors : a.name = name THEN [code |-> 400, db |-> cat]
  ELSE [code |-> 201,
        db |-> [cat EXCEPT !.authors = @ \cup {[id |-> NextId(cat.authors), name |-> name]}]]

\* GET /books/{book_id}
get_book(cat, book_id) ==
  IF ~HasBook(cat, book_id) THEN NotFound(cat) ELSE [code |-> 200, db |-> cat]

\* the row of the book is deleted and its association rows are left behind
delete_row(cat, book_id) ==
  IF ~HasBook(cat, book_id) THEN NotFound(cat)
  ELSE [code |-> 204, db |-> [cat EXCEPT !.books = @ \ {BookById(cat, book_id)}]]

\* DELETE /books/{book_id}: the row and its rows of the two association tables
delete_book(cat, book_id) ==
  IF ~HasBook(cat, book_id) THEN NotFound(cat)
  ELSE [code |-> 204,
        db |-> [cat EXCEPT !.books = @ \ {BookById(cat, book_id)},
                           !.book_authors = {l \in @ : l[1] # book_id},
                           !.book_genres = {l \in @ : l[1] # book_id}]]

RoundHalfEven2(num, den) ==
  IF 2 * (num % den) > den \/ (2 * (num % den) = den /\ (num \div den) % 2 = 1)
  THEN (num \div den) + 1
  ELSE num \div den

\* round(num / den) of Python 3: to the nearest integer, a tie to the even one
RoundHalfEven(num, den) ==
  IF den < 0 THEN RoundHalfEven2(0 - num, 0 - den) ELSE RoundHalfEven2(num, den)

\* models.py lines 105-110: Book.progress, in tenths of a percent
progress(book) ==
  IF ~Truthy(book.total_pages) THEN 0
  ELSE RoundHalfEven((IF Truthy(book.current_page) THEN book.current_page.v ELSE 0) * 1000,
                     book.total_pages.v)

\* started_at is overwritten on every start
StartedToday(book) == [book EXCEPT !.status = Lit("reading"), !.started_at = Today]

\* lines 277-279
Started(book) ==
  [book EXCEPT !.status = Lit("reading"),
               !.started_at = IF Truthy(@) THEN @ ELSE Today]

\* POST /books/{book_id}/start-reading
start_reading(cat, book_id) ==
  IF ~HasBook(cat, book_id) THEN NotFound(cat)
  ELSE [code |-> 200,
        db |-> Replace(cat, BookById(cat, book_id), Started(BookById(cat, book_id)))]

\* the book is marked finished and its page is left where it was
FinishedKeepingPage(book, rating) ==
  [book EXCEPT !.status = Lit("finished"),
               !.finished_at = Today,
               !.rating = IF Truthy(rating) THEN rating ELSE @]

\* lines 299-304
Finished(book, rating) ==
  [book EXCEPT !.status = Lit("finished"),
               !.finished_at = Today,
               !.current_page = IF Truthy(book.total_pages) THEN book.total_pages ELSE @,
               !.rating = IF Truthy(rating) THEN rating ELSE @]

\* POST /books/{book_id}/finish-reading
finish_reading(cat, book_id, rating) ==
  IF ~HasBook(cat, book_id) THEN NotFound(cat)
  ELSE [code |-> 200,
        db |-> Replace(cat, BookById(cat, book_id), Finished(BookById(cat, book_id), rating))]

\* a page above 0 takes up any book that is not being read
ResumedByProgress(book, current_page) ==
  IF book.status # Lit("reading") /\ current_page > 0
  THEN [book EXCEPT !.status = Lit("reading"),
                    !.started_at = IF Truthy(@) THEN @ ELSE Today]
  ELSE book

\* lines 325-329
StartedByProgress(book, current_page) ==
  IF book.status = Lit("planned") /\ current_page > 0
  THEN [book EXCEPT !.status = Lit("reading"),
                    !.started_at = IF Truthy(@) THEN @ ELSE Today]
  ELSE book

\* the last page itself does not finish the book
FinishedPastTheEnd(book, current_page) ==
  IF Truthy(book.total_pages) /\ current_page > book.total_pages.v
  THEN [book EXCEPT !.status = Lit("finished"),
                    !.finished_at = IF Truthy(@) THEN @ ELSE Today]
  ELSE book

\* lines 332-336
FinishedByProgress(book, current_page) ==
  IF Truthy(book.total_pages) /\ current_page >= book.total_pages.v
  THEN [book EXCEPT !.status = Lit("finished"),
                    !.finished_at = IF Truthy(@) THEN @ ELSE Today]
  ELSE book

\* lines 322-336
Progressed(book, current_page) ==
  FinishedByProgress(
    StartedByProgress([book EXCEPT !.current_page = PyInt(current_page)], current_page),
    current_page)

\* POST /books/{book_id}/update-progress
update_progress(cat, book_id, current_page) ==
  IF ~HasBook(cat, book_id) THEN NotFound(cat)
  ELSE [code |-> 200,
        db |-> Replace(cat, BookById(cat, book_id),
                       Progressed(BookById(cat, book_id), current_page))]

(* update_book.  The unit of work st is [S, ok, ga, la, ca, gg, lg, cg]:  *)
(* for the authors collection of the book, ga says it was assigned, la is  *)
(* the set of ids whose association rows the transaction holds, ca the     *)
(* collection as the handler has built it; gg, lg, cg for the genres.      *)

\* the ids linked to the book in an association table
LinksOf(links, book_id) == {l[2] : l \in {k \in links : k[1] = book_id}}

\* the members of the collection that have no association row yet
Added(assigned, cur, linked) ==
  IF assigned THEN SelectSeq(cur, LAMBDA x : x \notin linked) ELSE <<>>

\* flush of the book's collections: DELETE the rows of the members removed,
\* INSERT a row per member added; a member added twice is an IntegrityError
Sync(st) ==
  [st EXCEPT !.ok = NoRepeat(Added(st.ga, st.ca, st.la)) /\ NoRepeat(Added(st.gg, st.cg, st.lg)),
             !.la = IF st.ga THEN Range(st.ca) ELSE @,
             !.lg = IF st.gg THEN Range(st.cg) ELSE @]

\* book.authors.append(author), book.genres.append(genre)
Appended(table, st, id) ==
  IF table = "authors" THEN [st EXCEPT !.ca = Append(@, id)] ELSE [st EXCEPT !.cg = Append(@, id)]

\* get_or_create flushes only when it creates the entity
UpdApplied(table, st, r) ==
  IF r.exc THEN [st EXCEPT !.ok = FALSE]
  ELSE IF r.S.tx[table] # st.S.tx[table]
  THEN Appended(table, [Sync(st) EXCEPT !.S = r.S], r.id)
  ELSE Appended(table, [st EXCEPT !.S = r.S], r.id)

\* lines 240-242 and 247-249
RECURSIVE UpdResolve(_, _, _, _)
UpdResolve(table, cat, st, names) ==
  IF names = <<>> \/ ~st.ok THEN st
  ELSE UpdResolve(table, cat,
                  UpdApplied(table, st, GetOrCreate(table, st.S, cat, Head(names))),
                  Tail(names))

\* lines 238-242
UpdAuthors(cat, data, st) ==
  IF data.authors.t = "None" THEN st
  ELSE UpdResolve("authors", cat, [st EXCEPT !.ga = TRUE, !.ca = <<>>],
                  StripEach(data.authors.v))

\* lines 245-249
UpdGenres(cat, data, st) ==
  IF data.genres.t = "None" \/ ~st.ok THEN st
  ELSE UpdResolve("genres", cat, [st EXCEPT !.gg = TRUE, !.cg = <<>>],
                  StripEach(data.genres.v))

\* lines 231-235: setattr for every field the request set
UpdateFields(book, fields) ==
  [k \in DOMAIN book |-> IF k \in DOMAIN fields THEN fields[k] ELSE book[k]]

\* line 251: db.commit()
UpdCommitted(cat, book_id, data, st) ==
  IF ~st.ok THEN [code |-> 500, db |-> cat]
  ELSE [code |-> 200,
        db |-> [st.S.tx EXCEPT
                  !.books = (@ \ {BookById(cat, book_id)})
                            \cup {UpdateFields(BookById(cat, book_id), data.fields)},
                  !.book_authors = {l \in @ : l[1] # book_id}
                                   \cup {<<book_id, a>> : a \in st.la},
                  !.book_genres = {l \in @ : l[1] # book_id}
                                  \cup {<<book_id, g>> : g \in st.lg}]]

UpdFlushed(cat, book_id, data, st) ==
  UpdCommitted(cat, book_id, data, IF st.ok THEN Sync(st) ELSE st)

\* the unit of work when the book has been loaded
UnitOfWork(cat, book_id) ==
  [S |-> NewSession(cat), ok |-> TRUE,
   ga |-> FALSE, la |-> LinksOf(cat.book_authors, book_id), ca |-> <<>>,
   gg |-> FALSE, lg |-> LinksOf(cat.book_genres, book_id), cg |-> <<>>]

\* PATCH /books/{book_id}
update_book(cat, book_id, data) ==
  IF ~HasBook(cat, book_id) THEN NotFound(cat)
  ELSE UpdFlushed(cat, book_id, data,
                  UpdGenres(cat, data, UpdAuthors(cat, data, UnitOfWork(cat, book_id))))

-----------------------------------------------------------------------------
(* Uploaded records *)

Absent9 ==
  [title |-> PyAbsent, subtitle |-> PyAbsent, authors |-> PyAbsent, author |-> PyAbsent,
   categories |-> PyAbsent, tags |-> PyAbsent, genres |-> PyAbsent, genre |-> PyAbsent,
   readingStatus |-> PyAbsent, state |-> PyAbsent, types |-> PyAbsent, pages |-> PyAbsent,
   userRating |-> PyAbsent, status |-> PyAbsent, format |-> PyAbsent,
   total_pages |-> PyAbsent, current_page |-> PyAbsent, rating |-> PyAbsent]

\* a row of csv.DictReader: the columns of the header, None for the cells a
\* short line does not have
Row(cells) == cells @@ Absent9

TrackerRows ==
  { Row([title |-> PyStr(<<"a">>), authors |-> PyStr(<<"x">>), categories |-> PyStr(<<>>),
         readingStatus |-> PyStr(<<"READ">>), types |-> PyStr(<<"PAPERBACK">>),
         pages |-> PyStr(<<"3", "0", "0">>), userRating |-> PyStr(<<"4", ".", "5">>),
         subtitle |-> PyStr(<<>>)]),
    Row([title |-> PyStr(<<" ">>), authors |-> PyStr(<<"x">>), categories |-> PyStr(<<>>),
         readingStatus |-> PyStr(<<>>), types |-> PyStr(<<>>),
         pages |-> PyStr(<<>>), userRating |-> PyStr(<<>>), subtitle |-> PyStr(<<>>)]),
    Row([title |-> PyStr(<<"b", " ">>), authors |-> PyStr(<<"x", ",", " ", "X", " ", ",", "x">>),
         categories |-> PyStr(<<"g">>), readingStatus |-> PyStr(<<"shelved">>),
         state |-> PyStr(<<"Owned">>), types |-> PyStr(<<"EBOOK", ",", "AUDIOBOOK">>),
         pages |-> PyStr(<<"n">>), userRating |-> PyStr(<<"7">>), subtitle |-> PyStr(<<>>)]),
    Row([title |-> PyStr(<<"c">>), authors |-> PyStr(<<"y">>), categories |-> PyStr(<<"g">>),
         readingStatus |-> PyStr(<<"reading">>), types |-> PyNone,
         pages |-> PyNone, userRating |-> PyNone, subtitle |-> PyNone]),
    Row([title |-> PyStr(<<"d">>), authors |-> PyStr(<<>>), categories |-> PyStr(<<>>),
         readingStatus |-> PyStr(<<"READ">>), types |-> PyStr(<<>>),
         pages |-> PyStr(<<"1", "0">>), userRating |-> PyStr(<<"4", ".", "8">>),
         subtitle |-> PyStr(<<>>)]) }

CsvRows ==
  { Row([title |-> PyStr(<<"a">>), authors |-> PyStr(<<"x">>), genres |-> PyStr(<<"g">>),
         status |-> PyStr(<<"finished">>), format |-> PyStr(<<"paper">>),
         total_pages |-> PyStr(<<"3", "0", "0">>), current_page |-> PyStr(<<>>),
         rating |-> PyStr(<<"9">>)]),
    Row([title |-> PyStr(<<" ">>), authors |-> PyStr(<<"y">>), genres |-> PyStr(<<>>),
         status |-> PyStr(<<>>), format |-> PyStr(<<>>),
         total_pages |-> PyStr(<<>>), current_page |-> PyStr(<<>>), rating |-> PyStr(<<>>)]),
    Row([title |-> PyStr(<<"b">>), authors |-> PyStr(<<"x", ",", " ", "x">>), genres |-> PyStr(<<>>),
         status |-> PyStr(<<"reading">>), format |-> PyStr(<<"ebook">>),
         total_pages |-> PyStr(<<>>), current_page |-> PyStr(<<>>), rating |-> PyStr(<<>>)]),
    Row([title |-> PyStr(<<"c">>), authors |-> PyStr(<<"X">>), genres |-> PyStr(<<"G">>),
         status |-> PyStr(<<"done">>), format |-> PyStr(<<"pdf">>),
         total_pages |-> PyStr(<<"n">>), current_page |-> PyStr(<<"7">>),
         rating |-> PyStr(<<"1", "1">>)]),
    Row([title |-> PyStr(<<"d">>), authors |-> PyStr(<<"y">>), genres |-> PyStr(<<>>),
         status |-> PyNone, format |-> PyNone,
         total_pages |-> PyNone, current_page |-> PyNone, rating |-> PyNone]) }

JsonRecords ==
  { PyObj([title |-> PyStr(<<"a">>), authors |-> PyList(<<PyStr(<<"x">>)>>),
           genres |-> PyList(<<PyStr(<<"g">>)>>), status |-> PyStr(<<"finished">>),
           total_pages |-> PyInt(300), current_page |-> PyInt(300), rating |-> PyInt(9)]),
    PyObj([title |-> PyStr(<<>>), authors |-> PyList(<<PyStr(<<"y">>)>>)]),
    PyObj([title |-> PyStr(<<"b">>), total_pages |-> PyDict]),
    PyObj([title |-> PyStr(<<"c">>), authors |-> PyList(<<PyStr(<<"y">>), PyInt(5)>>)]),
    PyObj([title |-> PyStr(<<" ", "d">>), authors |-> PyStr(<<"X", " ">>),
           status |-> PyStr(<<"done">>), format |-> PyStr(<<"pdf">>), rating |-> PyInt(11)]) }

FaultPoints == {"none", "flush", "commit"}

\* cells of the readingStatus column; None is the cell of a short line
StatusCells ==
  { PyStr(<<"READ">>), PyStr(<<"read">>), PyStr(<<"Read">>), PyStr(<<"Reading">>),
    PyStr(<<"reading">>), PyStr(<<"want_to_read">>), PyStr(<<"WANT_TO_READ">>),
    PyStr(<<"on_hold">>), PyStr(<<"On_Hold">>), PyStr(<<"dropped">>), PyStr(<<"DROPPED">>),
    PyStr(<<"shelved">>), PyStr(<<"finished">>), PyStr(<<" ", "read">>), PyStr(<<>>), PyNone }

\* cells of the state column
StateCells ==
  { PyStr(<<"Owned">>), PyStr(<<"bookshelf">>), PyStr(<<"Bookshelf">>), PyStr(<<"read">>),
    PyStr(<<>>), PyNone }

\* cells of the types column
TypeCells ==
  { PyStr(<<"PAPERBACK">>), PyStr(<<"HARDCOVER">>), PyStr(<<"EBOOK">>), PyStr(<<"ebook">>),
    PyStr(<<"e-book">>), PyStr(<<"E-BOOK">>), PyStr(<<"AUDIOBOOK">>), PyStr(<<"Audiobook">>),
    PyStr(<<"EBOOK", ",", "AUDIOBOOK">>), PyStr(<<"AUDIOBOOK", ",", "EBOOK">>),
    PyStr(<<"PAPERBACK", ",", "e-book">>), PyStr(<<"HARDCOVER", ",", "PAPERBACK">>),
    PyStr(<<"HARDCOVER", ",", "Audiobook">>), PyStr(<<"pdf">>), PyStr(<<>>), PyNone }

\* decoded uploads: a header line and data lines
CsvTexts ==
  { <<"title", ";", "authors", "\n", "a", ";", "x", ",", "y">>,
    <<"title", ",", "authors", "\n", "a", ",", "x", ";", "y">>,
    <<"title", ",", "authors", ";", "\n", "a", ",", "x">>,
    <<"title", ";", "authors">>,
    <<"title", ",", "authors">>,
    <<"title", "\n", "a", ";", "x">>,
    <<>> }

\* bodies of POST /books that pass the BookCreate schema
BookPayloads ==
  { [title |-> <<"e">>, status |-> Lit("planned"), format |-> Lit("paper"),
     total_pages |-> PyInt(300), current_page |-> PyInt(0), rating |-> PyNone,
     started_at |-> PyNone, finished_at |-> PyNone,
     authors |-> << <<"x", ",", " ", "y">> >>, genres |-> << <<"g", " ">> >>],
    [title |-> <<"a">>, status |-> Lit("planned"), format |-> Lit("ebook"),
     total_pages |-> PyInt(10), current_page |-> PyInt(3), rating |-> PyInt(8),
     started_at |-> PyDate("earlier"), finished_at |-> PyDate("earlier"),
     authors |-> << <<"x">> >>, genres |-> <<>>] }

\* bodies of PATCH /books/{book_id} that pass the BookUpdate schema
UpdatePayloads ==
  { [fields |-> [rating |-> PyInt(5), status |-> Lit("finished")],
     authors |-> PyNone, genres |-> PyNone],
    [fields |-> <<>>,
     authors |-> PyList(<< <<" ", "x">>, <<"z">> >>), genres |-> PyList(<<>>)],
    [fields |-> <<>>,
     authors |-> PyList(<< <<"z">>, <<"z">> >>), genres |-> PyNone] }

\* bodies of POST /authors
AuthorNames == { <<"x">>, <<"X">> }

\* current_page of update-progress (ge=0)
Pages == {0, 5, 300}

\* rating of finish-reading (ge=1, le=10), or none
Ratings == {PyNone, PyInt(10)}

\* the ids of the books, and one id no book has
BookIds(cat) == {b.id : b \in cat.books} \cup {NextId(cat.books)}


-----------------------------------------------------------------------------
(* export_to_csv and export_to_json *)

DigitTok(d) ==
  CASE d = 0 -> "0" [] d = 1 -> "1" [] d = 2 -> "2" [] d = 3 -> "3" [] d = 4 -> "4"
    [] d = 5 -> "5" [] d = 6 -> "6" [] d = 7 -> "7" [] d = 8 -> "8" [] OTHER -> "9"

RECURSIVE NatStr(_)
NatStr(n) == IF n < 10 THEN <<DigitTok(n)>> ELSE Append(NatStr(n \div 10), DigitTok(n % 10))

\* str(n) of an int
IntStr(n) == IF n < 0 THEN <<"-">> \o NatStr(0 - n) ELSE NatStr(n)

\* the text csv.writer writes for a value: str(x), and nothing for None
CellText(x) ==
  CASE x.t = "str" -> x.v
    [] x.t = "int" -> IntStr(x.v)
    [] OTHER -> <<>>

\* (x or d) for the cell of a nullable column
CellOr(x, d) == IF Truthy(x) THEN CellText(x) ELSE d

\* sep.join(names)
RECURSIVE Join(_, _)
Join(names, sep) ==
  IF names = <<>> THEN <<>>
  ELSE IF Len(names) = 1 THEN names[1]
  ELSE names[1] \o sep \o Join(Tail(names), sep)

MinId(rows) == CHOOSE r \in rows : \A q \in rows : r.id <= q.id

\* db.query(...).all(): the rows in the order of their ids
RECURSIVE InOrder(_)
InOrder(rows) ==
  IF rows = {} THEN <<>> ELSE <<MinId(rows)>> \o InOrder(rows \ {MinId(rows)})

\* [a.name for a in book.authors], [g.name for g in book.genres]
NamesOf(cat, table, links, book_id) ==
  [i \in 1..Cardinality(LinksOf(links, book_id)) |->
     InOrder({e \in cat[table] : e.id \in LinksOf(links, book_id)})[i].name]

\* lines 504-528: the line of one book, as csv.DictReader reads it back
CsvLine(cat, book) ==
  Row([title |-> PyStr(CellText(book.title)),
       subtitle |-> PyStr(<<>>),
       authors |-> PyStr(Join(NamesOf(cat, "authors", cat.book_authors, book.id), <<",", " ">>)),
       genres |-> PyStr(Join(NamesOf(cat, "genres", cat.book_genres, book.id), <<",", " ">>)),
       format |-> PyStr(CellText(book.format)),
       status |-> PyStr(CellText(book.status)),
       total_pages |-> PyStr(CellOr(book.total_pages, <<>>)),
       current_page |-> PyStr(CellOr(book.current_page, <<"0">>)),
       rating |-> PyStr(CellOr(book.rating, <<>>))])

\* GET /import-export/export/csv: the data lines of the file
export_to_csv(cat) ==
  [i \in 1..Cardinality(cat.books) |-> CsvLine(cat, InOrder(cat.books)[i])]

PyNames(names) == PyList([i \in 1..Len(names) |-> PyStr(names[i])])

\* lines 556-580: book_data of one book, as json.loads reads it back
JsonObject(cat, book) ==
  PyObj([title |-> book.title,
         authors |-> PyNames(NamesOf(cat, "authors", cat.book_authors, book.id)),
         genres |-> PyNames(NamesOf(cat, "genres", cat.book_genres, book.id)),
         format |-> book.format,
         status |-> book.status,
         total_pages |-> book.total_pages,
         current_page |-> book.current_page,
         rating |-> book.rating])

\* GET /import-export/export/json: the document
export_to_json(cat) ==
  PyObj([books |-> PyList([i \in 1..Cardinality(cat.books) |->
                             JsonObject(cat, InOrder(cat.books)[i])])])

\* line 421: data if isinstance(data, list) else data.get('books', [])
BooksData(data) == IF data.t = "list" THEN data.v ELSE JGet(data, "books", PyList(<<>>)).v

\* the loop of import_from_csv or import_from_json over the records of a
\* file, and the db.commit() after it, on the committed catalog cat
RECURSIVE ImportLoop(_, _, _, _)
ImportLoop(handler, S, cat, recs) ==
  IF recs = <<>> THEN SessionCommit(S, cat)
  ELSE ImportLoop(handler,
                  (IF handler = "csv" THEN CsvRecord(S, cat, Head(recs))
                   ELSE JsonRecord(S, cat, Head(recs))).S,
                  cat, Tail(recs))

import_file(handler, cat, recs) == ImportLoop(handler, NewSession(cat), cat, recs)

-----------------------------------------------------------------------------
(* State *)

VARIABLES
  db,      \* the committed catalog
  sess,    \* the request's session [tx, pending, active]
  pc,      \* "idle", or the import handler that is reading records
  result,  \* ImportResult of the running or last import
  nread,   \* records read by the running or last import
  total,   \* records read by all imports, plus requests to the other endpoints
  resp,    \* response of the last request: [code, why, by]; code 0 while it runs
  start,   \* the committed catalog when the running or last import began
  log,     \* per record of the running or last import: the record and its outcome
  req,     \* the last request: [op, id, arg]
  file     \* the file in the body of the last response: [kind, rows]

vars == <<db, sess, pc, result, nread, total, resp, start, log, req, file>>

ImportResult == [success |-> 0, failed |-> 0, skipped |-> 0, errors |-> <<>>]

NoResponse == [code |-> 0, why |-> "", by |-> ""]

NoRequest == [op |-> "", id |-> 0, arg |-> ""]

NoFile == [kind |-> "", rows |-> <<>>]

\* an upload to an import endpoint
Upload(handler, upload) == [op |-> handler, id |-> 0, arg |-> upload]

Init ==
  /\ db = EmptyCatalog
  /\ sess = NewSession(EmptyCatalog)
  /\ pc = "idle"
  /\ result = ImportResult
  /\ nread = 0
  /\ total = 0
  /\ resp = NoResponse
  /\ start = EmptyCatalog
  /\ log = <<>>
  /\ req = NoRequest
  /\ file = NoFile

\* the counters when a skipped record adds its line but is not counted
CountWithoutSkipped(res, outcome, msg, n) ==
  [res EXCEPT ![outcome] = IF outcome = "skipped" THEN @ ELSE @ + 1,
              !.errors = IF outcome = "success" THEN @ ELSE Append(@, [n |-> n, msg |-> msg])]

\* the counters when the error line is put in front of the list
CountPrepending(res, outcome, msg, n) ==
  [res EXCEPT ![outcome] = @ + 1,
              !.errors = IF outcome = "success" THEN @ ELSE <<[n |-> n, msg |-> msg]>> \o @]

\* result.<outcome> += 1, and an error line for a failed or skipped record
Count(res, outcome, msg, n) ==
  [res EXCEPT ![outcome] = @ + 1,
              !.errors = IF outcome = "success" THEN @ ELSE Append(@, [n |-> n, msg |-> msg])]

\* no book with this title is visible to the session
Fresh(S, title) ==
  ~IsStr(title) \/ \A b \in S.tx.books \cup Range(S.pending) : b.title # PyStr(Strip(title.v))

\* the request begins: a new session, an empty ImportResult
Begin(handler) ==
  /\ pc = "idle"
  /\ pc' = handler
  /\ sess' = NewSession(db)
  /\ result' = ImportResult
  /\ nread' = 0
  /\ resp' = [NoResponse EXCEPT !.by = handler]
  /\ start' = db
  /\ log' = <<>>
  /\ file' = NoFile
  /\ UNCHANGED <<db, total>>

\* the upload is taken whatever its file name is
RejectNothing(handler, code, why) ==
  /\ pc = "idle"
  /\ pc' = handler
  /\ sess' = NewSession(db)
  /\ result' = ImportResult
  /\ nread' = 0
  /\ resp' = [NoResponse EXCEPT !.by = handler]
  /\ start' = db
  /\ log' = <<>>
  /\ file' = NoFile
  /\ UNCHANGED <<db, total>>

\* the request ends with an HTTP error before any record is read
Reject(handler, code, why) ==
  /\ pc = "idle"
  /\ resp' = [code |-> code, why |-> why, by |-> handler]
  /\ sess' = NewSession(db)
  /\ result' = ImportResult
  /\ nread' = 0
  /\ start' = db
  /\ log' = <<>>
  /\ file' = NoFile
  /\ UNCHANGED <<db, pc, total>>

\* what the pass over one record did: the record, its raw title, the counter
\* it incremented, the statement that raised, and whether the title was new
LogEntry(S, rec, title, r) ==
  [rec |-> rec, title |-> title, outcome |-> r.outcome, msg |-> r.msg, at |-> r.at,
   fresh |-> Fresh(S, title)]

-----------------------------------------------------------------------------
(* POST /import-export/import/booktracker *)

BeginTracker(upload) ==
  /\ req' = Upload("tracker", upload)
  /\ \/ upload = "ok" /\ Begin("tracker")
     \/ upload = "bad_extension" /\ Reject("tracker", 400, "extension")

\* the loop variables after a pass with outcome r
TrackerStep(row, r) ==
  /\ db' = r.db
  /\ sess' = NewSession(r.db)
  /\ result' = Count(result, r.outcome, r.msg, nread + 2)
  /\ log' = Append(log, LogEntry(sess, row, Get(row, "title", PyStr(<<>>)), r))
  /\ nread' = nread + 1
  /\ total' = total + 1
  /\ UNCHANGED <<pc, resp, start, req, file>>

\* one pass of the for loop: the next row of the reader
TrackerRow(row, fault) ==
  /\ pc = "tracker"
  /\ total < MaxRecords
  /\ TrackerStep(row, TrackerRecord(db, row, fault))

\* the reader raises csv.Error on the next line: the outer handler
ReaderError ==
  /\ pc \in {"tracker", "csv"}
  /\ pc' = "idle"
  /\ sess' = NewSession(db)
  /\ resp' = [resp EXCEPT !.code = 500, !.why = "reader"]
  /\ UNCHANGED <<db, result, nread, total, start, log, req, file>>

\* the reader is exhausted: return result
EndTracker ==
  /\ pc = "tracker"
  /\ pc' = "idle"
  /\ sess' = NewSession(db)
  /\ resp' = [resp EXCEPT !.code = 200, !.why = "result"]
  /\ UNCHANGED <<db, result, nread, total, start, log, req, file>>

-----------------------------------------------------------------------------
(* POST /import-export/import/csv and /import-export/import/json *)

BeginCsv(upload) ==
  /\ req' = Upload("csv", upload)
  /\ \/ upload = "ok" /\ Begin("csv")
     \/ upload = "bad_extension" /\ Reject("csv", 400, "extension")

\* the loop variables after a pass with outcome r; n is the number the
\* error line carries
SessionStep(rec, title, r, n) ==
  /\ sess' = r.S
  /\ result' = Count(result, r.outcome, r.msg, n)
  /\ log' = Append(log, LogEntry(sess, rec, title, r))
  /\ nread' = nread + 1
  /\ total' = total + 1
  /\ UNCHANGED <<db, pc, resp, start, req, file>>

CsvRow(row) ==
  /\ pc = "csv"
  /\ total < MaxRecords
  /\ SessionStep(row, Get(row, "title", PyStr(<<>>)), CsvRecord(sess, db, row), nread + 2)

BeginJson(upload) ==
  /\ req' = Upload("json", upload)
  /\ \/ upload = "ok" /\ Begin("json")
     \/ upload = "bad_extension" /\ Reject("json", 400, "extension")
     \/ upload = "malformed" /\ Reject("json", 400, "json")
     \/ upload = "not_a_document" /\ Reject("json", 500, "payload")

JsonRow(rec) ==
  /\ pc = "json"
  /\ total < MaxRecords
  /\ SessionStep(rec, JGet(rec, "title", PyStr(<<>>)), JsonRecord(sess, db, rec), nread + 1)

\* the response when a file without records is answered as a bad request
RespondEmptyAsError(c) ==
  /\ db' = c.db
  /\ sess' = NewSession(c.db)
  /\ resp' = IF c.ok /\ nread > 0 THEN [resp EXCEPT !.code = 200, !.why = "result"]
                    ELSE IF c.ok THEN [resp EXCEPT !.code = 400, !.why = "empty"]
                    ELSE [resp EXCEPT !.code = 500, !.why = "commit"]

\* the response after the commit c
Respond(c) ==
  /\ db' = c.db
  /\ sess' = NewSession(c.db)
  /\ resp' = IF c.ok THEN [resp EXCEPT !.code = 200, !.why = "result"]
                    ELSE [resp EXCEPT !.code = 500, !.why = "commit"]

\* the loop is over: db.commit(); on an exception db.rollback() and HTTP 500
EndCommit(handler) ==
  /\ pc = handler
  /\ pc' = "idle"
  /\ Respond(SessionCommit(sess, db))
  /\ UNCHANGED <<result, nread, total, start, log, req, file>>

EndCsv == EndCommit("csv")

EndJson == EndCommit("json")

-----------------------------------------------------------------------------
(* The books, authors and export endpoints: one request, one step *)

\* the request op(id, arg) is answered with r = [code, db] and the body body;
\* the locals of the import before it are gone
Serve(op, id, arg, r, body) ==
  /\ total < MaxRecords
  /\ total' = total + 1
  /\ req' = [op |-> op, id |-> id, arg |-> arg]
  /\ resp' = [code |-> r.code, why |-> "", by |-> op]
  /\ db' = r.db
  /\ sess' = NewSession(r.db)
  /\ file' = body
  /\ start' = db
  /\ result' = ImportResult
  /\ nread' = 0
  /\ log' = <<>>
  /\ UNCHANGED pc

CreateBook(data) ==
  /\ pc = "idle"
  /\ Serve("create_book", 0, data, create_book(db, data), NoFile)

UpdateBook(book_id, data) ==
  /\ pc = "idle"
  /\ Serve("update_book", book_id, data, update_book(db, book_id, data), NoFile)

DeleteBook(book_id) ==
  /\ pc = "idle"
  /\ Serve("delete_book", book_id, "", delete_book(db, book_id), NoFile)

StartReading(book_id) ==
  /\ pc = "idle"
  /\ Serve("start_reading", book_id, "", start_reading(db, book_id), NoFile)

FinishReading(book_id, rating) ==
  /\ pc = "idle"
  /\ Serve("finish_reading", book_id, rating, finish_reading(db, book_id, rating), NoFile)

UpdateProgress(book_id, current_page) ==
  /\ pc = "idle"
  /\ Serve("update_progress", book_id, current_page,
           update_progress(db, book_id, current_page), NoFile)

CreateAuthor(name) ==
  /\ pc = "idle"
  /\ Serve("create_author", 0, name, create_author(db, name), NoFile)

ExportCsv ==
  /\ pc = "idle"
  /\ Serve("export_csv", 0, "", [code |-> 200, db |-> db],
           [kind |-> "csv", rows |-> export_to_csv(db)])

ExportJson ==
  /\ pc = "idle"
  /\ Serve("export_json", 0, "", [code |-> 200, db |-> db],
           [kind |-> "json", rows |-> BooksData(export_to_json(db))])

-----------------------------------------------------------------------------
(* The conversions of the tracker import, each applied to one input *)

\* op applied to arg gave the value v
Converted(op, arg, v) ==
  /\ req' = [op |-> op, id |-> 0, arg |-> arg]
  /\ resp' = [code |-> 200, why |-> "", by |-> op]
  /\ file' = [kind |-> op, rows |-> <<v>>]
  /\ UNCHANGED <<db, sess, pc, result, nread, total, start, log>>

\* lines 162-165: map_reading_status(row.get('readingStatus', ''), row.get('state', ''))
MapReadingStatus(status, state) ==
  /\ pc = "idle"
  /\ Converted("map_reading_status", <<status, state>>, map_reading_status(status, state))

\* line 168: map_book_format(row.get('types', ''))
MapBookFormat(types) ==
  /\ pc = "idle"
  /\ Converted("map_book_format", <<types>>, map_book_format(types))

\* lines 131-136 and line 324: the reader over the decoded text
OpenReader(handler, text) ==
  /\ pc = "idle"
  /\ Converted("reader", <<handler, text>>,
               [delimiter |-> delimiter(handler, text),
                lines |-> Cells(text, delimiter(handler, text))])

NextConversion ==
  \/ \E status \in StatusCells, state \in StateCells : MapReadingStatus(status, state)
  \/ \E types \in TypeCells : MapBookFormat(types)
  \/ \E handler \in {"tracker", "csv"}, text \in CsvTexts : OpenReader(handler, text)

SpecConversion == Init /\ [][NextConversion]_vars

-----------------------------------------------------------------------------
(* Two Book Tracker imports at once.  The handler is a coroutine that calls *)
(* the store without awaiting, so two imports overlap only in two worker    *)
(* processes, each with its own session and SQLite connection.  In this     *)
(* specification every per-import variable is a function of the importer:   *)
(* pc[p], result[p], nread[p], log[p], and sess[p] = [row, writing], the    *)
(* record in hand and whether the connection holds the write lock of the    *)
(* database file.  db is the committed catalog both connections read.       *)

Importers == {1, 2}

Other(p) == 3 - p

NoRow == [row |-> <<>>, writing |-> FALSE]

InitConcurrent ==
  /\ db = EmptyCatalog
  /\ sess = [p \in Importers |-> NoRow]
  /\ pc = [p \in Importers |-> "idle"]
  /\ result = [p \in Importers |-> ImportResult]
  /\ nread = [p \in Importers |-> 0]
  /\ total = 0
  /\ resp = NoResponse
  /\ start = EmptyCatalog
  /\ log = [p \in Importers |-> <<>>]
  /\ req = NoRequest
  /\ file = NoFile

\* lines 140-151: the title test and the duplicate query, which reads the
\* committed catalog; "new" when the record goes on
TitleCheck(committed, row) ==
  IF ~IsStr(Get(row, "title", PyStr(<<>>)))
  THEN [outcome |-> "failed", msg |-> "exception", at |-> "title"]
  ELSE IF Strip(Get(row, "title", PyStr(<<>>)).v) = <<>>
  THEN [outcome |-> "failed", msg |-> "empty_title", at |-> "title"]
  ELSE IF \E b \in committed.books : b.title = PyStr(Strip(Get(row, "title", PyStr(<<>>)).v))
  THEN [outcome |-> "skipped", msg |-> "exists", at |-> "duplicate"]
  ELSE [outcome |-> "new", msg |-> "", at |-> ""]

\* the first INSERT of a transaction takes the write lock of the database
\* file, which one connection holds at a time
LockFree(p) == ~sess[Other(p)].writing

\* the pass over the record of line n ends with the outcome r: counted,
\* logged; beside says the other import had a record in hand at that time
Pass(p, row, r, n) ==
  /\ result' = [result EXCEPT ![p] = Count(@, r.outcome, r.msg, n)]
  /\ log' = [log EXCEPT ![p] = Append(@, [rec |-> row, outcome |-> r.outcome, at |-> r.at,
                                          beside |-> pc[Other(p)] \in {"flush", "commit"}])]
  /\ sess' = [sess EXCEPT ![p] = NoRow]
  /\ pc' = [pc EXCEPT ![p] = "loop"]

\* lines 119-136: the upload is read and decoded, the reader opened
StartImport(p) ==
  /\ pc[p] = "idle"
  /\ pc' = [pc EXCEPT ![p] = "loop"]
  /\ UNCHANGED <<db, sess, result, nread, total, resp, start, log, req, file>>

\* lines 138-151: the next row of the reader, up to the duplicate query
ReadRow(p, row) ==
  /\ pc[p] = "loop"
  /\ total < MaxRecords
  /\ nread' = [nread EXCEPT ![p] = @ + 1]
  /\ total' = total + 1
  /\ IF TitleCheck(db, row).outcome = "new"
     THEN /\ pc' = [pc EXCEPT ![p] = "flush"]
          /\ sess' = [sess EXCEPT ![p] = [row |-> row, writing |-> FALSE]]
          /\ UNCHANGED <<result, log>>
     ELSE Pass(p, row, TitleCheck(db, row), nread[p] + 2)
  /\ UNCHANGED <<db, resp, start, req, file>>

\* lines 239-241: db.add(book); db.flush() begins the transaction
WriteRow(p) ==
  /\ pc[p] = "flush"
  /\ LockFree(p)
  /\ sess' = [sess EXCEPT ![p].writing = TRUE]
  /\ pc' = [pc EXCEPT ![p] = "commit"]
  /\ UNCHANGED <<db, result, nread, total, resp, start, log, req, file>>

\* line 241 while the other connection holds the lock for longer than the
\* busy timeout: "database is locked"; lines 267-272 roll back and count
LockTimeout(p) ==
  /\ pc[p] = "flush"
  /\ ~LockFree(p)
  /\ Pass(p, sess[p].row, [outcome |-> "failed", msg |-> "exception", at |-> "flush"],
          nread[p] + 1)
  /\ UNCHANGED <<db, nread, total, resp, start, req, file>>

\* lines 243-272: the names are resolved inside the transaction, which sees
\* the committed catalog as no other connection can write; commit or rollback
CommitRow(p) ==
  /\ pc[p] = "commit"
  /\ db' = TrackerPersist(db, "none",
                          TrackerMaterialise(sess[p].row,
                                             Strip(Get(sess[p].row, "title", PyStr(<<>>)).v))).db
  /\ Pass(p, sess[p].row,
          TrackerPersist(db, "none",
                         TrackerMaterialise(sess[p].row,
                                            Strip(Get(sess[p].row, "title", PyStr(<<>>)).v))),
          nread[p] + 1)
  /\ UNCHANGED <<nread, total, resp, start, req, file>>

\* lines 273-281: the reader is exhausted, the result returned
EndImport(p) ==
  /\ pc[p] = "loop"
  /\ pc' = [pc EXCEPT ![p] = "done"]
  /\ UNCHANGED <<db, sess, result, nread, total, resp, start, log, req, file>>

NextConcurrent ==
  \/ \E p \in Importers : StartImport(p)
  \/ \E p \in Importers, row \in TrackerRows : ReadRow(p, row)
  \/ \E p \in Importers : WriteRow(p)
  \/ \E p \in Importers : LockTimeout(p)
  \/ \E p \in Importers : CommitRow(p)
  \/ \E p \in Importers : EndImport(p)

SpecConcurrent == InitConcurrent /\ [][NextConcurrent]_vars

-----------------------------------------------------------------------------

Next ==
  \/ \E upload \in {"ok", "bad_extension"} : BeginTracker(upload)
  \/ \E row \in TrackerRows, fault \in FaultPoints : TrackerRow(row, fault)
  \/ ReaderError
  \/ EndTracker
  \/ \E upload \in {"ok", "bad_extension"} : BeginCsv(upload)
  \/ \E row \in CsvRows : CsvRow(row)
  \/ EndCsv
  \/ \E upload \in {"ok", "bad_extension", "malformed", "not_a_document"} : BeginJson(upload)
  \/ \E rec \in JsonRecords : JsonRow(rec)
  \/ EndJson
  \/ \E data \in BookPayloads : CreateBook(data)
  \/ \E book_id \in BookIds(db), data \in UpdatePayloads : UpdateBook(book_id, data)
  \/ \E book_id \in BookIds(db) : DeleteBook(book_id)
  \/ \E book_id \in BookIds(db) : StartReading(book_id)
  \/ \E book_id \in BookIds(db), rating \in Ratings : FinishReading(book_id, rating)
  \/ \E book_id \in BookIds(db), current_page \in Pages : UpdateProgress(book_id, current_page)
  \/ \E name \in AuthorNames : CreateAuthor(name)
  \/ ExportCsv
  \/ ExportJson

Spec == Init /\ [][Next]_vars

-----------------------------------------------------------------------------
(* Vocabulary of the properties *)

\* the import endpoints
Handlers == {"tracker", "csv", "json"}

\* the last import returned an ImportResult
Returned == pc = "idle" /\ resp.code = 200 /\ resp.by \in Handlers

\* the last request went to an import endpoint: the import is running or over,
\* and start is the catalog it began with
Importing == resp.by \in Handlers

\* the last import ended with HTTP 500
Fatal == pc = "idle" /\ resp.code = 500 /\ resp.by \in Handlers

\* the title is empty, blank, missing or not a text
Blank(title) == ~IsStr(title) \/ Strip(title.v) = <<>>

\* a book with the trimmed title is in the committed catalog
Stored(title) == \E b \in db.books : b.title = PyStr(Strip(title.v))

Entries == 1..Len(log)

\* every cell of a CSV row is a text
WellFormedRow(row) == \A k \in DOMAIN row : row[k].t \in {"str", "absent"}

AllStr(l) == \A i \in 1..Len(l) : IsStr(l[i])

\* every field of a JSON record has the type the export writes
WellFormedField(k, x) ==
  CASE k \in {"title", "status", "format"} -> IsStr(x)
    [] k \in {"authors", "genres"} -> IsStr(x) \/ (x.t = "list" /\ AllStr(x.v))
    [] OTHER -> IsInt(x) \/ x = PyNone

WellFormed(rec) ==
  IF resp.by = "json" THEN \A k \in DOMAIN rec.v : WellFormedField(k, rec.v[k])
  ELSE WellFormedRow(rec)

\* a well-formed record with a new non-blank title, processed while the
\* store itself did not break down
Valid(e) ==
  /\ WellFormed(e.rec)
  /\ ~Blank(e.title)
  /\ e.fresh
  /\ e.at \notin {"flush", "commit"}

NotFailed(e) == e.outcome # "failed"

\* the records of the log that were not counted as failed
Kept == SelectSeq(log, NotFailed)

RECURSIVE ReplayTracker(_, _)
ReplayTracker(cat, entries) ==
  IF entries = <<>> THEN cat
  ELSE ReplayTracker(TrackerRecord(cat, Head(entries).rec, "none").db, Tail(entries))

RecordOf(handler, S, committed, rec) ==
  IF handler = "csv" THEN CsvRecord(S, committed, rec) ELSE JsonRecord(S, committed, rec)

RECURSIVE ReplaySession(_, _, _, _)
ReplaySession(handler, S, committed, entries) ==
  IF entries = <<>> THEN S
  ELSE ReplaySession(handler, RecordOf(handler, S, committed, Head(entries).rec).S,
                     committed, Tail(entries))

\* the catalog an import of exactly these records leaves behind
Replay(handler, cat, entries) ==
  IF handler = "tracker" THEN ReplayTracker(cat, entries)
  ELSE SessionCommit(ReplaySession(handler, NewSession(cat), cat, entries), cat).db

Sum(res) == res.success + res.failed + res.skipped

\* this step is the pass over one record: the log grows by one entry
RecordStep == Len(log') = Len(log) + 1

Last(l) == l[Len(l)]

NormalisedName(e) == Strip(Lower(e.name))

-----------------------------------------------------------------------------
(* Properties *)

\* C1: once the upload is parsed into records, a failure confined to one
\* record (a bad value, a missing required field, an exception of the store at
\* flush or commit time) never aborts the import: the import still returns a
\* result, and every record that was counted as imported is persisted.  The
\* only HTTP 500 left is a file-level one: the reader or the payload.
C1_RecordFailureNeverAborts ==
  /\ Fatal => resp.why \in {"reader", "payload"}
  /\ Returned => \A i \in Entries : log[i].outcome = "success" => Stored(log[i].title)

\* C2: once the import has returned, the catalog is the one the records that
\* were not counted as failed leave behind: a failed record leaves no book,
\* author, genre or association, and the records that succeeded stay.
C2_FailedRecordLeavesNoTrace ==
  Returned /\ resp.by # "" => db = Replay(resp.by, start, Kept)

\* C3: whenever an import returns a result, success + failed + skipped is the
\* number of records read from the file, one count and one log entry per
\* record; the sum is kept after every pass of the loop.
C3_CountsAddUp ==
  /\ Sum(result) = nread
  /\ Len(log) = nread
  /\ Len(result.errors) = result.failed + result.skipped
  /\ Returned => Sum(result) = Len(log)

\* C3 witness: a returned import of three records, one of each outcome
C3_Witness ==
  /\ Returned
  /\ result.success = 1
  /\ result.failed = 1
  /\ result.skipped = 1

\* C4: when an import ends with a fatal failure, nothing of the batch is
\* persisted: the catalog is the one the import started from.
C4_FatalPersistsNothing == Fatal => db = start

\* C5: every valid record with a non-blank title that is not in the catalog
\* is counted as success, and once the import has returned a book with the
\* trimmed title is in the catalog.
C5_ValidRecordImported ==
  \A i \in Entries :
    Valid(log[i]) =>
      /\ log[i].outcome = "success"
      /\ Returned => Stored(log[i].title)

\* C6: the pass over a record whose title is empty, blank or missing counts
\* the record as failed, adds one error line, and leaves the committed catalog
\* and the session as they were before the record.
C6_BlankTitleFails ==
  [][RecordStep /\ Blank(Last(log').title) =>
       /\ Last(log').outcome = "failed"
       /\ result'.failed = result.failed + 1
       /\ result'.success = result.success
       /\ result'.skipped = result.skipped
       /\ Len(result'.errors) = Len(result.errors) + 1
       /\ db' = db
       /\ sess' = sess]_vars

\* C6 witness: an import returned in which a blank-title record was counted
\* as failed after a record had been imported
C6_Witness ==
  /\ Returned
  /\ Len(log) >= 2
  /\ log[1].outcome = "success"
  /\ Blank(log[2].title)
  /\ log[2].outcome = "failed"
  /\ db # start

\* C7: for every import endpoint, a record whose trimmed title equals the
\* title of a book already in the catalog (an earlier record of the same file
\* included) is counted as skipped, and no second book of that title is made.
C7_DuplicateTitleSkipped ==
  /\ \A i \in Entries : ~Blank(log[i].title) /\ ~log[i].fresh => log[i].outcome = "skipped"
  /\ Importing =>
       \A b1 \in db.books \ start.books, b2 \in db.books : b1.title = b2.title => b1 = b2

\* C8: an import never makes an Author or a Genre whose name equals, after
\* trimming and lower-casing, the name of another Author or Genre of the
\* catalog, whether that one was there before the import or came with it.
C8_NamesUniqueCaseInsensitive ==
  Importing =>
    /\ \A a1 \in db.authors \ start.authors, a2 \in db.authors :
         NormalisedName(a1) = NormalisedName(a2) => a1 = a2
    /\ \A g1 \in db.genres \ start.genres, g2 \in db.genres :
         NormalisedName(g1) = NormalisedName(g2) => g1 = g2

\* C9: every stored book has a status of the six-value set and a format of
\* the three-value set.
C9_StatusAndFormatInVocabulary ==
  \A b \in db.books : b.status \in BookStatus /\ b.format \in BookFormat

\* C10: every stored rating is absent or an integer from 1 to 10.
C10_RatingInRange ==
  \A b \in db.books : b.rating = PyNone \/ (IsInt(b.rating) /\ b.rating.v \in 1..10)

\* what a round trip has to keep of a catalog: per book, in the order of the
\* ids, the title, the names of the authors, the names of the genres, the
\* status and the rating
Content(cat) ==
  [i \in 1..Cardinality(cat.books) |->
     [title |-> InOrder(cat.books)[i].title,
      authors |-> Range(NamesOf(cat, "authors", cat.book_authors, InOrder(cat.books)[i].id)),
      genres |-> Range(NamesOf(cat, "genres", cat.book_genres, InOrder(cat.books)[i].id)),
      status |-> InOrder(cat.books)[i].status,
      rating |-> InOrder(cat.books)[i].rating]]

\* the catalog an empty store holds after the exported file was uploaded to
\* the importer of its kind
Reimported == import_file(file.kind, EmptyCatalog, file.rows).db

\* C11: the file that export CSV (export JSON) made of the catalog, imported
\* by the generic CSV importer (the JSON importer) into an empty catalog, gives
\* for every exported book a book of the same title, author names, genre
\* names, status and rating, and no other book.
C11_RoundTrip ==
  req.op \in {"export_csv", "export_json"} /\ resp.code = 200 =>
    Content(Reimported) = Content(db)

\* C11, the JSON half alone
C11_JsonRoundTrip ==
  req.op = "export_json" /\ resp.code = 200 => Content(Reimported) = Content(db)

\* C12: every book an import stores with status finished and a known
\* total_pages has current_page equal to total_pages, whichever of the three
\* endpoints stored it and whatever current_page its record gave or left out.
C12_FinishedMeansAllPagesRead ==
  Importing =>
    \A b \in db.books \ start.books :
      b.status = PyStr(<<"finished">>) /\ IsInt(b.total_pages) =>
        b.current_page = b.total_pages

\* C13: an upload whose file name has not the extension of the endpoint
\* (.csv for the two CSV imports, .json for the JSON import) is answered with
\* HTTP 400 for the format in the very step it arrives: no record is read,
\* no import is left running, and the catalog stays as it was.
C13_BadExtensionRejected ==
  [][req'.op \in Handlers /\ req'.arg = "bad_extension" =>
       /\ resp' = [code |-> 400, why |-> "extension", by |-> req'.op]
       /\ pc' = "idle"
       /\ nread' = 0
       /\ log' = <<>>
       /\ total' = total
       /\ db' = db]_vars

\* C13 witness: a file of the wrong extension was turned down by the JSON
\* import while the catalog held books
C13_Witness ==
  /\ req.op = "json"
  /\ req.arg = "bad_extension"
  /\ resp.code = 400
  /\ db.books # {}

\* C14: an import that ends without having read a record, the reader not
\* having raised, returns HTTP 200 with success = failed = skipped = 0 and no
\* error line, and the catalog is the one the import began with; a JSON object
\* without a "books" list holds no record.
C14_EmptyUploadIsNoError ==
  [][pc # "idle" /\ pc' = "idle" /\ nread = 0 /\ resp'.why # "reader" =>
       /\ resp'.code = 200
       /\ result' = ImportResult
       /\ result'.errors = <<>>
       /\ db' = db
       /\ db' = start
       /\ BooksData(PyObj([version |-> PyInt(1)])) = <<>>
       /\ BooksData(PyList(<<>>)) = <<>>]_vars

\* C14 witness: a JSON import of no record returned while the catalog held books
C14_Witness ==
  /\ Returned
  /\ resp.by = "json"
  /\ nread = 0
  /\ result = ImportResult
  /\ db.books # {}

\* r is what get-or-create has to give for the name in the catalog: the
\* entity of exactly that name when there is one, and nothing added; exactly
\* one new entity of that name otherwise
Resolves(cat, table, name, r) ==
  /\ ~r.exc
  /\ IF \E e \in cat[table] : e.name = name
     THEN r.S.tx = cat /\ r.id = EntityId(cat, table, name)
     ELSE /\ r.S.tx[table] = cat[table] \cup {[id |-> r.id, name |-> name]}
          /\ r.id \notin {e.id : e \in cat[table]}

\* C15: whatever sequence of book creations, book updates, author creations
\* and imports has run, no two Author entities and no two Genre entities of
\* the catalog have exactly the same name; get-or-create gives the entity of
\* exactly that name when there is one and makes exactly one otherwise.
C15_ExactNamesUnique ==
  /\ \A a1, a2 \in db.authors : a1.name = a2.name => a1 = a2
  /\ \A g1, g2 \in db.genres : g1.name = g2.name => g1 = g2
  /\ \A name \in AuthorNames :
       /\ Resolves(db, "authors", name, get_or_create_author(NewSession(db), db, name))
       /\ Resolves(db, "genres", name, get_or_create_genre(NewSession(db), db, name))

\* C15 witness: a book was created through POST /books with the name of an
\* author the catalog already held, and two books now share that author
C15_Witness ==
  /\ req.op = "create_book"
  /\ resp.code = 201
  /\ \E a \in start.authors :
       /\ a \in db.authors
       /\ Cardinality({l \in db.book_authors : l[2] = a.id}) = 2
  /\ Cardinality(db.authors) = Cardinality(start.authors)

\* the step serves a request to the endpoint op of the books router
Serves(op) == total' = total + 1 /\ req'.op = op

\* the rows of an association table that belong to other books
LinksOfOthers(links, book_id) == {l \in links : l[1] # book_id}

\* C16: DELETE /books/{id} of a stored book answers 204, after which a get of
\* that id is not-found and no book-author or book-genre row of the book is
\* left, while the authors, the genres, the other books and the association
\* rows of the other books are as before; for an id that is not stored it
\* answers not-found and the catalog is as before.
C16_DeleteRemovesBookAndLinks ==
  [][Serves("delete_book") =>
       IF HasBook(db, req'.id)
       THEN /\ resp'.code = 204
            /\ get_book(db', req'.id).code = 404
            /\ LinksOf(db'.book_authors, req'.id) = {}
            /\ LinksOf(db'.book_genres, req'.id) = {}
            /\ db'.books = db.books \ {BookById(db, req'.id)}
            /\ db'.authors = db.authors
            /\ db'.genres = db.genres
            /\ db'.book_authors = LinksOfOthers(db.book_authors, req'.id)
            /\ db'.book_genres = LinksOfOthers(db.book_genres, req'.id)
       ELSE /\ resp'.code = 404
            /\ db' = db]_vars

\* C16 witness: a book with an author and a genre was deleted, and another
\* book with its author is still there
C16_Witness ==
  /\ req.op = "delete_book"
  /\ resp.code = 204
  /\ LinksOf(start.book_authors, req.id) # {}
  /\ LinksOf(start.book_genres, req.id) # {}
  /\ db.books # {}
  /\ db.book_authors # {}
  /\ Cardinality(db.authors) = 2

\* C16 witness of the other case: the id was not stored
C16_WitnessNotFound ==
  /\ req.op = "delete_book"
  /\ resp.code = 404
  /\ db.books # {}

\* the book of the request before and after the step that serves it
Before == BookById(db, req'.id)

After == BookById(db', req'.id)

\* the field is the date it held before when it held one, and today otherwise
SetIfUnset(field) == After[field] = IF Truthy(Before[field]) THEN Before[field] ELSE Today

\* the page reaches the end of a book whose total_pages is known and not zero
AtTheEnd(book, p) == Truthy(book.total_pages) /\ p >= book.total_pages.v

\* C17: update-progress with a page p >= 0 on a stored book stores
\* current_page = p; when total_pages is known and not zero and p >= total_pages
\* the status becomes finished, whatever it was, and finished_at is set only if
\* it was unset; otherwise a planned book with p > 0 becomes reading; in both
\* cases a planned book with p > 0 gets started_at set only if it was unset.
C17_UpdateProgress ==
  [][Serves("update_progress") /\ HasBook(db, req'.id) =>
       /\ req'.arg >= 0
       /\ resp'.code = 200
       /\ After.current_page = PyInt(req'.arg)
       /\ AtTheEnd(Before, req'.arg) =>
            After.status = Lit("finished") /\ SetIfUnset("finished_at")
       /\ Before.status = Lit("planned") /\ req'.arg > 0 =>
            /\ SetIfUnset("started_at")
            /\ ~AtTheEnd(Before, req'.arg) => After.status = Lit("reading")]_vars

\* C17 witness: a planned book that had a started_at was moved to a page
\* inside the book and became reading
C17_Witness ==
  /\ req.op = "update_progress"
  /\ resp.code = 200
  /\ HasBook(start, req.id)
  /\ BookById(start, req.id).status = Lit("planned")
  /\ BookById(start, req.id).started_at = PyDate("earlier")
  /\ BookById(db, req.id).status = Lit("reading")
  /\ BookById(db, req.id).current_page = PyInt(5)

\* C17 witness of the other case: a book that was not planned was moved to
\* its last page and became finished
C17_WitnessFinished ==
  /\ req.op = "update_progress"
  /\ resp.code = 200
  /\ HasBook(start, req.id)
  /\ BookById(start, req.id).status = Lit("reading")
  /\ BookById(db, req.id).status = Lit("finished")
  /\ BookById(db, req.id).current_page = BookById(db, req.id).total_pages

\* C18: finish-reading on a stored book, whatever its status, sets the status
\* to finished and finished_at to a date, sets current_page to total_pages when
\* total_pages is known and not zero, so that progress is 100, and sets the
\* rating to the one supplied, leaving it as it was when none is supplied.
C18_FinishReading ==
  [][Serves("finish_reading") /\ HasBook(db, req'.id) =>
       /\ resp'.code = 200
       /\ After.status = Lit("finished")
       /\ After.finished_at.t = "date"
       /\ Truthy(Before.total_pages) =>
            After.current_page = Before.total_pages /\ progress(After) = 1000
       /\ After.rating = IF req'.arg = PyNone THEN Before.rating ELSE req'.arg]_vars

\* C18 witness: a planned book of 300 pages on page 0 was finished with the
\* rating 10
C18_Witness ==
  /\ req.op = "finish_reading"
  /\ resp.code = 200
  /\ req.arg = PyInt(10)
  /\ HasBook(start, req.id)
  /\ BookById(start, req.id).status = Lit("planned")
  /\ BookById(start, req.id).current_page = PyInt(0)
  /\ BookById(db, req.id).current_page = PyInt(300)
  /\ BookById(db, req.id).rating = PyInt(10)

\* C19: start-reading on a stored book, whatever its status, sets the status
\* to reading; started_at is today when it was unset and is left as it was
\* otherwise, so it is a date afterwards; current_page, finished_at and rating
\* are left as they were.
C19_StartReading ==
  [][Serves("start_reading") /\ HasBook(db, req'.id) =>
       /\ resp'.code = 200
       /\ After.status = Lit("reading")
       /\ After.started_at.t = "date"
       /\ SetIfUnset("started_at")
       /\ After.current_page = Before.current_page
       /\ After.finished_at = Before.finished_at
       /\ After.rating = Before.rating]_vars

\* C19 witness: a finished book that had a started_at was started again and
\* kept that date
C19_Witness ==
  /\ req.op = "start_reading"
  /\ resp.code = 200
  /\ HasBook(start, req.id)
  /\ BookById(start, req.id).status = Lit("finished")
  /\ BookById(start, req.id).started_at = PyDate("earlier")
  /\ BookById(db, req.id).status = Lit("reading")
  /\ BookById(db, req.id).started_at = PyDate("earlier")

\* the rating the rescale rule gives the float f: twice f rounded to the
\* nearest integer when f <= 5, f itself otherwise, kept when it lies in 1..10
RescaledRating(f) ==
  IF f.kind # "num" THEN PyNone
  ELSE IF f.num <= 5 * f.den THEN KeepRating(RoundHalfEven(2 * f.num, f.den))
  ELSE KeepRating(Trunc(f.num, f.den))

\* the userRating cell of a tracker row, stripped
UserRating(row) == Strip(Get(row, "userRating", PyStr(<<>>)).v)

\* the book of the trimmed title has this rating
StoredWithRating(title, rating) ==
  \E b \in db.books : b.title = PyStr(Strip(title.v)) /\ b.rating = rating

\* C20: a valid tracker record with a new title is imported, whatever its
\* userRating is; when the userRating is a number the book has the rescaled
\* rating (twice the number rounded to the nearest integer up to 5, the number
\* itself above 5) if that lies in 1..10 and no rating otherwise; when it is
\* not a number the book has no rating.
C20_TrackerRatingRescaled ==
  resp.by = "tracker" =>
    \A i \in Entries :
      Valid(log[i]) =>
        /\ log[i].outcome = "success"
        /\ StoredWithRating(log[i].title,
                            IF UserRating(log[i].rec) # <<>> /\ ParseFloat(UserRating(log[i].rec)).ok
                            THEN RescaledRating(ParseFloat(UserRating(log[i].rec)))
                            ELSE PyNone)

\* the value the last conversion gave, and its arguments
Value == file.rows[1]

Did(op) == req.op = op /\ file.kind = op

\* the status the mapping table gives a readingStatus cell, compared in lower case
TableStatus(status) ==
  IF Lower(TextOrEmpty(status)) = <<"read">> THEN Lit("finished")
  ELSE IF Lower(TextOrEmpty(status)) \in {<<"reading">>, <<"on_hold">>, <<"dropped">>}
  THEN PyStr(Lower(TextOrEmpty(status)))
  ELSE Lit("planned")

\* C21: map_reading_status gives, the readingStatus compared without regard to
\* case, finished for read, reading for reading, planned for want_to_read,
\* on_hold for on_hold, dropped for dropped, and planned for every other
\* readingStatus, an empty or missing one included, whatever the state is; the
\* result is one of these five literals.
C21_StatusMapping ==
  Did("map_reading_status") =>
    /\ Value = TableStatus(req.arg[1])
    /\ Value \in {Lit("finished"), Lit("reading"), Lit("planned"), Lit("on_hold"), Lit("dropped")}

\* C21 witness: READ in upper case with the state Owned gave finished
C21_Witness ==
  /\ Did("map_reading_status")
  /\ req.arg = <<PyStr(<<"READ">>), PyStr(<<"Owned">>)>>
  /\ Value = Lit("finished")

\* C21 witness of the default: a missing readingStatus with the state read
\* gave planned
C21_WitnessDefault ==
  /\ Did("map_reading_status")
  /\ req.arg = <<PyNone, PyStr(<<"read">>)>>
  /\ Value = Lit("planned")

\* the format the priority order gives a types cell
PriorityFormat(types) ==
  IF Contains(Lower(TextOrEmpty(types)), <<"audiobook">>) THEN Lit("audiobook")
  ELSE IF \E w \in {"ebook", "e-book"} : Contains(Lower(TextOrEmpty(types)), <<w>>)
  THEN Lit("ebook")
  ELSE Lit("paper")

\* C22: map_book_format gives, the types compared without regard to case,
\* audiobook when the text contains audiobook, otherwise ebook when it contains
\* ebook or e-book, otherwise paper (hardcover, paperback, anything else, empty
\* or missing); the result is one of the three format literals, and a text
\* that lists several types resolves by that priority.
C22_FormatMapping ==
  Did("map_book_format") =>
    /\ Value = PriorityFormat(req.arg[1])
    /\ Value \in BookFormat

\* C22 witness: a text listing ebook before audiobook gave audiobook
C22_Witness ==
  /\ Did("map_book_format")
  /\ req.arg = <<PyStr(<<"EBOOK", ",", "AUDIOBOOK">>)>>
  /\ Value = Lit("audiobook")

\* C23: both CSV import endpoints decide the delimiter from the first line of
\* the text alone: the semicolon when the first line contains one, whatever
\* the later lines hold, and the comma when it contains none; the lines are
\* split into cells at that delimiter.
C23_DelimiterFromFirstLine ==
  Did("reader") =>
    /\ Value.delimiter = IF Contains(FirstLine(req.arg[2]), <<";">>) THEN ";" ELSE ","
    /\ Value.lines = Cells(req.arg[2], Value.delimiter)

\* C23, for the tracker import alone
C23_TrackerDelimiter ==
  Did("reader") /\ req.arg[1] = "tracker" =>
    /\ Value.delimiter = IF Contains(FirstLine(req.arg[2]), <<";">>) THEN ";" ELSE ","
    /\ Value.lines = Cells(req.arg[2], Value.delimiter)

\* the positions in the file, counted from 1, of the records that were
\* counted as failed or skipped, in the order of the file
RECURSIVE Positions(_, _)
Positions(entries, k) ==
  IF k > Len(entries) THEN <<>>
  ELSE IF entries[k].outcome = "success" THEN Positions(entries, k + 1)
  ELSE <<k>> \o Positions(entries, k + 1)

\* C24: in every import, the message recorded for the k-th record of the
\* file, counted from 1 without the header, carries the position k, for a
\* failed and for a skipped record alike.
C24_MessageCarriesPosition ==
  Importing /\ Len(result.errors) = Len(Positions(log, 1)) =>
    \A j \in 1..Len(result.errors) : result.errors[j].n = Positions(log, 1)[j]

\* C24, for the JSON import alone
C24_JsonMessageCarriesPosition ==
  resp.by = "json" /\ Len(result.errors) = Len(Positions(log, 1)) =>
    \A j \in 1..Len(result.errors) : result.errors[j].n = Positions(log, 1)[j]

\* the columns and keys that hold numbers
NumericFields == {"pages", "total_pages", "current_page", "rating", "userRating"}

\* nothing but a numeric field can be wrong with the record: its texts are
\* texts, and no name is listed twice
FineButNumbers(e) ==
  /\ ~Blank(e.title)
  /\ e.fresh
  /\ e.at \notin {"flush", "commit"}
  /\ IF resp.by = "json"
     THEN \A k \in DOMAIN e.rec.v \ NumericFields : WellFormedField(k, e.rec.v[k])
     ELSE /\ WellFormedRow(e.rec)
          /\ NoRepeat(SplitNames(Get(e.rec, "authors", PyStr(<<>>)).v))
          /\ NoRepeat(SplitNames(Get(e.rec, "genres", PyStr(<<>>)).v))

\* the source value of the field total_pages (pages in the tracker file)
\* cannot be read as an integer
UnreadablePages(e) ==
  IF resp.by = "json"
  THEN ~IsInt(JGet(e.rec, "total_pages", PyNone)) /\ JGet(e.rec, "total_pages", PyNone) # PyNone
  ELSE IF resp.by = "csv"
  THEN /\ Strip(Get(e.rec, "total_pages", PyStr(<<>>)).v) # <<>>
       /\ ~ParseInt(Get(e.rec, "total_pages", PyStr(<<>>)).v).ok
  ELSE /\ Strip(Get(e.rec, "pages", PyStr(<<>>)).v) # <<>>
       /\ ~ParseInt(Get(e.rec, "pages", PyStr(<<>>)).v).ok

StoredWithoutPages(title) ==
  \E b \in db.books : b.title = PyStr(Strip(title.v)) /\ b.total_pages = PyNone

\* C25: in an import whose records have nothing wrong but numeric fields,
\* every record is counted as success; the import returns its result, and a
\* book whose page count could not be read as an integer is stored without one.
C25_UnreadableNumberLeftUnset ==
  Importing /\ resp.why # "reader" /\ log # <<>>
  /\ (\A i \in Entries : FineButNumbers(log[i])) =>
    /\ \A i \in Entries : log[i].outcome = "success"
    /\ pc = "idle" =>
         /\ resp.code = 200
         /\ \A i \in Entries : UnreadablePages(log[i]) => StoredWithoutPages(log[i].title)

\* C25, for the two CSV imports alone
C25_CsvUnreadableNumberLeftUnset ==
  resp.by \in {"tracker", "csv"} /\ resp.why # "reader" /\ log # <<>>
  /\ (\A i \in Entries : FineButNumbers(log[i])) =>
    /\ \A i \in Entries : log[i].outcome = "success"
    /\ pc = "idle" =>
         /\ resp.code = 200
         /\ \A i \in Entries : UnreadablePages(log[i]) => StoredWithoutPages(log[i].title)

\* the texts of a list of JSON names
Texts(l) == [i \in 1..Len(l) |-> l[i].v]

\* the author names (which = "authors") or genre names (which = "genres") the
\* record lists, as the handler of the running import reads them
Listed(e, which) ==
  IF resp.by = "json"
  THEN Texts(JsonNames(JGet(e.rec, which, PyList(<<>>))).names)
  ELSE IF resp.by = "csv"
  THEN SplitNames(PyOr(Get(e.rec, which, PyStr(<<>>)),
                       Get(e.rec, IF which = "authors" THEN "author" ELSE "genre",
                           PyStr(<<>>))).v)
  ELSE IF which = "authors"
  THEN SplitNames(Get(e.rec, "authors", PyStr(<<>>)).v)
  ELSE SplitNames(PyOr(Get(e.rec, "categories", PyStr(<<>>)), Get(e.rec, "tags", PyStr(<<>>))).v)

\* two places of the list hold the same name, up to case and surrounding
\* whitespace
Repeated(names) ==
  \E i, j \in 1..Len(names) :
    i < j /\ Strip(Lower(names[i])) = Strip(Lower(names[j])) /\ Strip(names[i]) # <<>>

\* the record names an author or a genre more than once
NamesTwice(e) == Repeated(Listed(e, "authors")) \/ Repeated(Listed(e, "genres"))

\* a well-formed record with a new non-blank title, with no failure of the
\* store injected while it was processed
Sound(e) ==
  /\ WellFormed(e.rec)
  /\ ~Blank(e.title)
  /\ e.fresh
  /\ resp.by = "tracker" => e.at \notin {"flush", "commit"}

\* the stored book of the title holds every author and every genre once: no
\* two of its entities have the same name up to case and whitespace
HoldsEachOnce(title) ==
  \A b \in db.books :
    b.title = PyStr(Strip(title.v)) =>
      /\ \A a1, a2 \in {a \in db.authors : a.id \in LinksOf(db.book_authors, b.id)} :
           NormalisedName(a1) = NormalisedName(a2) => a1 = a2
      /\ \A g1, g2 \in {g \in db.genres : g.id \in LinksOf(db.book_genres, b.id)} :
           NormalisedName(g1) = NormalisedName(g2) => g1 = g2

\* C26: in an import of sound records, a record that names the same author or
\* genre more than once is counted as success; the import returns its result,
\* and the stored book holds that entity once.
C26_RepeatedNameAttachedOnce ==
  Importing /\ resp.why # "reader" /\ log # <<>>
  /\ (\A i \in Entries : Sound(log[i])) =>
    /\ \A i \in Entries : NamesTwice(log[i]) => log[i].outcome = "success"
    /\ pc = "idle" =>
         /\ resp.code = 200
         /\ \A i \in Entries : NamesTwice(log[i]) =>
              Stored(log[i].title) /\ HoldsEachOnce(log[i].title)

\* C26, for the Book Tracker import alone
C26_TrackerRepeatedNameAttachedOnce ==
  resp.by = "tracker" /\ resp.why # "reader" /\ log # <<>>
  /\ (\A i \in Entries : Sound(log[i])) =>
    /\ \A i \in Entries : NamesTwice(log[i]) => log[i].outcome = "success"
    /\ pc = "idle" =>
         /\ resp.code = 200
         /\ \A i \in Entries : NamesTwice(log[i]) =>
              Stored(log[i].title) /\ HoldsEachOnce(log[i].title)

\* the number of records of the log with the outcome
Outcomes(outcome) == Cardinality({i \in Entries : log[i].outcome = outcome})

\* C27: during an import and when it returns its result, the error list has
\* failed + skipped entries, one per failed or skipped record and none for a
\* successful one, in the order of the records in the file: the j-th entry is
\* the line of the j-th record that did not succeed.
C27_OneErrorLinePerRecordInOrder ==
  Importing /\ resp.code \in {0, 200} =>
    /\ Len(result.errors) = result.failed + result.skipped
    /\ result.failed = Outcomes("failed")
    /\ result.skipped = Outcomes("skipped")
    /\ Len(result.errors) = Len(Positions(log, 1))
    /\ \A j \in 1..Len(result.errors) :
         /\ result.errors[j].msg = log[Positions(log, 1)[j]].msg
         /\ \A k \in 1..Len(result.errors) :
              j < k => result.errors[j].n < result.errors[k].n

\* C27 witness: a returned result with two error lines, of a failed and of a
\* skipped record, around a record that succeeded
C27_Witness ==
  /\ Returned
  /\ Len(log) = 3
  /\ log[1].outcome = "failed"
  /\ log[2].outcome = "success"
  /\ log[3].outcome = "skipped"
  /\ Len(result.errors) = 2
  /\ result.errors[1].msg # result.errors[2].msg

RECURSIVE SecondImport(_, _, _)
\* import_from_booktracker run once more over the records of the log, from
\* the catalog cat: the catalog and the result it ends with
SecondImport(cat, entries, res) ==
  IF entries = <<>> THEN [db |-> cat, result |-> res]
  ELSE SecondImport(TrackerRecord(cat, Head(entries).rec, "none").db, Tail(entries),
                    Count(res, TrackerRecord(cat, Head(entries).rec, "none").outcome,
                          TrackerRecord(cat, Head(entries).rec, "none").msg,
                          Sum(res) + 2))

\* the store did not break down while the record was processed
StoreHeld(e) == e.at \notin {"flush", "commit"}

C30_UpdateProgressFrame ==
  [][Serves("update_progress") /\ HasBook(db, req'.id) =>
       /\ After.status # Before.status =>
            \/ Before.status = Lit("planned") /\ req'.arg > 0
            \/ AtTheEnd(Before, req'.arg)
       /\ After.rating = Before.rating
       /\ Before.status # Lit("planned") /\ ~AtTheEnd(Before, req'.arg) =>
            /\ After.status = Before.status
            /\ After.started_at = Before.started_at
            /\ After.finished_at = Before.finished_at
            /\ After.current_page = PyInt(req'.arg)]_vars

\* C30 witness: a finished book was moved to a page above 0 inside the book
\* and is still finished
C30_Witness ==
  /\ req.op = "update_progress"
  /\ resp.code = 200
  /\ req.arg > 0
  /\ HasBook(start, req.id)
  /\ BookById(start, req.id).status = Lit("finished")
  /\ Truthy(BookById(start, req.id).total_pages)
  /\ req.arg < BookById(start, req.id).total_pages.v
  /\ BookById(db, req.id).status = Lit("finished")
  /\ BookById(db, req.id).current_page = PyInt(req.arg)

\* the names the loop of lines 243-261 resolves for the record: the listed
\* names without those seen before up to case and whitespace
RECURSIVE Resolved(_, _)
Resolved(names, seen) ==
  IF names = <<>> THEN {}
  ELSE IF Strip(Lower(Head(names))) \in seen \/ Strip(Lower(Head(names))) = <<>>
  THEN Resolved(Tail(names), seen)
  ELSE {Head(names)} \cup Resolved(Tail(names), seen \cup {Strip(Lower(Head(names)))})

\* a committed book of the record's trimmed title is linked to an author of
\* each resolved author name and to a genre of each resolved genre name
Persisted(row) ==
  \E b \in db.books :
    /\ b.title = PyStr(Strip(Get(row, "title", PyStr(<<>>)).v))
    /\ \A n \in Resolved(SplitNames(Get(row, "authors", PyStr(<<>>)).v), {}) :
         \E a \in db.authors : a.name = n /\ a.id \in LinksOf(db.book_authors, b.id)
    /\ \A n \in Resolved(SplitNames(PyOr(Get(row, "categories", PyStr(<<>>)),
                                         Get(row, "tags", PyStr(<<>>))).v), {}) :
         \E g \in db.genres : g.name = n /\ g.id \in LinksOf(db.book_genres, b.id)

\* the import p counted n records with the outcome
Counted(p, outcome) == Cardinality({i \in 1..Len(log[p]) : log[p][i].outcome = outcome})

C29_FailedRecordRolledBack ==
  [][\A p \in Importers :
       Len(log'[p]) = Len(log[p]) + 1 /\ Last(log'[p]).outcome = "failed" =>
         /\ db' = db
         /\ result'[p].failed = result[p].failed + 1
         /\ result'[Other(p)] = result[Other(p)]
         /\ log'[Other(p)] = log[Other(p)]
         /\ pc'[Other(p)] = pc[Other(p)]]_vars

C29_WitnessFailed ==
  /\ \E i \in 1..Len(log[1]) :
       log[1][i].outcome = "failed" /\ log[1][i].at = "flush" /\ log[1][i].beside
  /\ \E i \in 1..Len(log[2]) : log[2][i].outcome = "success"
  /\ result[1].failed = 1
  /\ db.books # {}

====
